---- MODULE Spec2Model ----
(***************************************************************************)
(* Verification model of the remote terminal bridge                        *)
(* (jazztong/remote-terminal): command classification, the bot approval    *)
(* handshake, the web UI admission handlers, and the session / PTY         *)
(* lifecycle of the bot bridge and the web bridge.                         *)
(***************************************************************************)
EXTENDS Integers, Sequences, FiniteSets, TLC

VARIABLES
    \* ---- command classification (isInteractiveCommand) ----
    cmd,          \* the command text, a sequence of characters
    classifyPc,   \* "off" | "call" | "returned"
    classified,   \* what isInteractiveCommand returned
    \* ---- approval handshake (setupWithApproval) ----
    apPc,         \* "off" | "waiting" | "approved" | "expired" | "locked" | "listening"
    approvalCode, \* the generated code
    attempts,     \* failed attempts so far
    codeExpiry,   \* instant after which the code is expired
    approved,     \* the local flag `approved`
    diskConfig,   \* config.json: [exists, AllowedUsers]
    apMsg,        \* the update the loop handled last
    now,          \* wall clock
    \* ---- session and PTY lifecycle (bot bridge, web bridge) ----
    mode,         \* "off" | "bot" | "web" | "test"
    allowedUsers, \* config.AllowedUsers of the bot bridge
    registry,     \* sessions map: client id -> session object (0: no entry)
    mu,           \* holder of the registry lock, or "free"
    sess,         \* the Session objects
    term,         \* the Terminal objects (one per Session)
    nextSess,     \* next unused object
    pc,           \* position of every worker
    loc,          \* locals of every worker
    upd,          \* per listener: the update / frame being handled, then the reply
    panicked,     \* "no", or the runtime panic that ended the process
    exited,       \* os.Exit was called
    ptyCap,       \* PTYs the host can provide in this run; pty.Start fails beyond
    flow,         \* one socket session's output path: PTY, reader, channel, streamer, frames
    \* ---- web UI admission (WebUIServer HTTP handlers) ----
    passwordHash, \* s.config.WebUIPasswordHash (NoHash: config nil or hash "")
    webDisk,      \* webui_password_hash in config.json
    authSessions, \* s.authSessions: token -> expiry (NoExpiry: no entry)
    issued,       \* tokens generated so far
    nextID,       \* s.nextID
    setupPc,      \* per POST /setup-password in flight: "none" | "hashing"
    setupPw,      \* per POST /setup-password in flight: the password it validated
    resp,         \* the response written last
    \* ---- daemon mode (main, daemon.go) ----
    pidFile,      \* the PID file: "absent" | "present"
    cleanupHook,  \* daemonCleanupHook: "none" | "removePIDFile"
    \* ---- chat output formatting (TelegramSink, ScreenReader) ----
    chatSink,     \* one TelegramSink send: the text, the splitter's chunks, the messages sent
    screenReader, \* one ScreenReader: the emulator's rows, lastScreen, what Diff returned
    sinkWrite,    \* one sink under concurrent callers: its kind, its lock, each caller's position
    launcher,     \* `--daemon` invocations: the PID file's content, live daemons, each parent's position
    \* ---- output streamers and their helpers ----
    chatStream,   \* one bot streamSessionOutput: its clock, its locals, what it delivered
    findCall,     \* one call of findNewContent: its arguments and what it returned
    streamOut,    \* one Terminal.StreamOutput: its clock, its locals, the channel
    splitLoop     \* one call of splitAtSafeBoundary: the rest of s, the parts so far

classifyVars == <<cmd, classifyPc, classified>>
approvalVars == <<apPc, approvalCode, attempts, codeExpiry, approved, diskConfig, apMsg>>
daemonVars == <<pidFile, cleanupHook>>
moreVars == <<chatStream, findCall, streamOut, splitLoop>>
outVars == <<chatSink, screenReader, sinkWrite, launcher, moreVars>>
sessVars == <<mode, allowedUsers, registry, mu, sess, term, nextSess, pc, loc, upd,
              panicked, exited, ptyCap, flow, daemonVars, outVars>>
authVars == <<passwordHash, webDisk, authSessions, issued, nextID, setupPc, setupPw, resp>>
vars == <<classifyVars, approvalVars, now, sessVars, authVars>>

(***************************************************************************)
(* Command classification                                                  *)
(***************************************************************************)

\* Longest command text explored.
MaxCmdLen == 5

\* Characters the explored command texts are built from.
CmdAlphabet == {" ", "\t", "h", "t", "o", "p"}

\* The characters strings.Fields splits on (unicode.IsSpace, ASCII part).
asciiSpace == {" ", "\t", "\n", "\r"}

\* The literal list of isInteractiveCommand, in source order.
interactive == <<
    <<"c","l","a","u","d","e">>,
    <<"c","l","a","u","d","e","-","c","o","d","e">>,
    <<"a","i","d","e","r">>,
    <<"p","y","t","h","o","n">>,
    <<"p","y","t","h","o","n","3">>,
    <<"i","p","y","t","h","o","n">>,
    <<"n","o","d","e">>,
    <<"d","e","n","o">>,
    <<"b","u","n">>,
    <<"i","r","b">>,
    <<"r","u","b","y">>,
    <<"g","h","c","i">>,
    <<"s","t","a","c","k">>,
    <<"l","u","a">>,
    <<"p","s","q","l">>,
    <<"m","y","s","q","l">>,
    <<"r","e","d","i","s","-","c","l","i">>,
    <<"v","i","m">>,
    <<"n","v","i","m">>,
    <<"e","m","a","c","s">>,
    <<"n","a","n","o">>,
    <<"l","e","s","s">>,
    <<"m","o","r","e">>,
    <<"t","o","p">>,
    <<"h","t","o","p">>,
    <<"b","t","o","p">>,
    <<"w","a","t","c","h">>,
    <<"s","s","h">>,
    <<"t","e","l","n","e","t">>
>>

\* strings.Fields, scanning s from position i; fieldStart = 0 while between fields.
RECURSIVE FieldsFrom(_, _, _, _)
FieldsFrom(s, i, fieldStart, acc) ==
    IF i > Len(s)
    THEN IF fieldStart > 0 THEN Append(acc, SubSeq(s, fieldStart, Len(s))) ELSE acc
    ELSE IF s[i] \in asciiSpace
         THEN IF fieldStart > 0
              THEN FieldsFrom(s, i + 1, 0, Append(acc, SubSeq(s, fieldStart, i - 1)))
              ELSE FieldsFrom(s, i + 1, 0, acc)
         ELSE FieldsFrom(s, i + 1, IF fieldStart > 0 THEN fieldStart ELSE i, acc)

Fields(s) == FieldsFrom(s, 1, 0, <<>>)

\* A comparison that accepts any first word starting with the entry.
MatchesEntryByPrefix(firstWord, entry) ==
    /\ Len(firstWord) >= Len(entry)
    /\ SubSeq(firstWord, 1, Len(entry)) = entry

\* The loop `for _, cmd := range interactive { if firstWord == cmd ...`.
MatchesEntry(firstWord, entry) == firstWord = entry

isInteractiveCommand(c) ==
    LET parts == Fields(c)
    IN  IF Len(parts) = 0
        THEN FALSE
        ELSE \E k \in 1..Len(interactive) : MatchesEntry(parts[1], interactive[k])

RECURSIVE SeqsUpTo(_, _)
SeqsUpTo(S, n) ==
    IF n = 0 THEN {<<>>}
    ELSE LET shorter == SeqsUpTo(S, n - 1)
         IN  shorter \cup {Append(q, c) : q \in {r \in shorter : Len(r) = n - 1}, c \in S}

ClassifyInit ==
    /\ cmd \in SeqsUpTo(CmdAlphabet, MaxCmdLen)
    /\ classifyPc = "call"
    /\ classified = FALSE

ClassifyIdle ==
    /\ cmd = <<>>
    /\ classifyPc = "off"
    /\ classified = FALSE

Classify ==
    /\ classifyPc = "call"
    /\ classified' = isInteractiveCommand(cmd)
    /\ classifyPc' = "returned"
    /\ UNCHANGED <<cmd, approvalVars, now, sessVars, authVars>>

(***************************************************************************)
(* Approval handshake (first-run setup of the bot)                         *)
(***************************************************************************)

\* Sender ids that appear in updates.
Users == {101, 102}

\* Codes generateCode may have drawn (8 decimal digits).
Codes == {"12345678", "87654321"}

\* Message texts of the explored updates.
ApTexts == Codes \cup {"1234567", "hello"}

\* `maxAttempts := 5`
maxAttempts == 5

\* `codeExpiry := time.Now().Add(15 * time.Minute)`, in minutes.
ApprovalMinutes == 15

\* Last clock value explored, in minutes.
MaxNow == 17

\* A comparison that looks at the shape of the text only (8 characters).
CodeMatchesByShape(text, code) == text \in Codes

\* subtle.ConstantTimeCompare([]byte(text), []byte(approvalCode)) == 1
CodeMatches(text, code) == text = code

\* An expiry test that allows one more minute (mutant).
CodeExpiredLate(t, expiry) == t > expiry + 1

\* time.Now().After(codeExpiry)
CodeExpired(t, expiry) == t > expiry

\* An off-by-one lock test.
AttemptsExhaustedLate(n) == maxAttempts - n < 0

\* `remaining := maxAttempts - attempts; if remaining <= 0`
AttemptsExhausted(n) == maxAttempts - n <= 0

\* saveConfig: os.WriteFile may fail; the error is returned to the caller.
saveConfig(disk, config, writeOk) ==
    IF writeOk THEN [exists |-> TRUE, AllowedUsers |-> config.AllowedUsers] ELSE disk

NoConfig == [exists |-> FALSE, AllowedUsers |-> <<>>]

NoUpdate == [kind |-> "none", user |-> 0, text |-> "", at |-> 0]

ApprovalInit ==
    /\ apPc = "waiting"
    /\ approvalCode \in Codes
    /\ attempts = 0
    /\ codeExpiry = ApprovalMinutes
    /\ approved = FALSE
    /\ diskConfig = NoConfig
    /\ apMsg = NoUpdate

ApprovalIdle ==
    /\ apPc = "off"
    /\ approvalCode = ""
    /\ attempts = 0
    /\ codeExpiry = 0
    /\ approved = FALSE
    /\ diskConfig = NoConfig
    /\ apMsg = NoUpdate

\* One iteration of `for update := range updates` with update.Message == nil.
ApNilUpdate ==
    /\ apPc = "waiting"
    /\ apMsg' = [NoUpdate EXCEPT !.kind = "nil", !.at = now]
    /\ UNCHANGED <<apPc, approvalCode, attempts, codeExpiry, approved, diskConfig,
                   classifyVars, now, sessVars, authVars>>

\* One iteration of `for update := range updates` with a message.
ApMessage(userID, text, writeOk) ==
    /\ apPc = "waiting"
    /\ IF CodeExpired(now, codeExpiry)
       THEN /\ apPc' = "expired"
            /\ apMsg' = [kind |-> "expired", user |-> userID, text |-> text, at |-> now]
            /\ UNCHANGED <<attempts, approved, diskConfig>>
       ELSE IF CodeMatches(text, approvalCode)
       THEN /\ approved' = TRUE
            /\ diskConfig' = saveConfig(diskConfig, [AllowedUsers |-> <<userID>>], writeOk)
            /\ apPc' = "approved"
            /\ apMsg' = [kind |-> "approved", user |-> userID, text |-> text, at |-> now]
            /\ UNCHANGED attempts
       ELSE /\ attempts' = attempts + 1
            /\ apPc' = IF AttemptsExhausted(attempts + 1) THEN "locked" ELSE "waiting"
            /\ apMsg' = [kind |-> IF AttemptsExhausted(attempts + 1)
                                  THEN "locked" ELSE "invalid",
                         user |-> userID, text |-> text, at |-> now]
            /\ UNCHANGED <<approved, diskConfig>>
    /\ UNCHANGED <<approvalCode, codeExpiry, classifyVars, now, sessVars, authVars>>

\* Time passes while the loop waits for the next update.
ApTick ==
    /\ apPc = "waiting"
    /\ now < MaxNow
    /\ now' = now + 1
    /\ UNCHANGED <<classifyVars, approvalVars, sessVars, authVars>>

\* After the loop: `if approved { config, _ := loadConfig(); bridge, err :=
\* NewTelegramBridge(bot, config); bridge.Listen() }`. The configuration the
\* bridge listens with is what loadConfig finds on disk (nil when the file is
\* not there); neither the error of saveConfig nor that of loadConfig is tested.
ApListen ==
    /\ apPc = "approved"
    /\ approved
    /\ apPc' = "listening"
    /\ UNCHANGED <<approvalCode, attempts, codeExpiry, approved, diskConfig, apMsg,
                   classifyVars, now, sessVars, authVars>>

ApprovalNext ==
    \/ ApNilUpdate
    \/ \E u \in Users, t \in ApTexts, ok \in BOOLEAN : ApMessage(u, t, ok)
    \/ ApTick
    \/ ApListen

(***************************************************************************)
(* Sessions and PTYs: shared definitions                                   *)
(***************************************************************************)

\* Client ids: chat ids of the bot, connection ids of the web bridge.
Chats == {1, 2}

\* Session objects (each with its Terminal) created in one run.
MaxSessions == 1

\* Session objects created in one run of the two-client specification.
PairSessions == 2

\* Capacity used for Terminal.outputChan (make(chan string, 100) in the source).
ChanCap == 1

\* Goroutines of TestSessionSafeCloseDoneConcurrent (100 in the source).
TestCallers == 2

SessIds == 1..PairSessions

BotListener == <<"listen", 0>>
Conn(c) == <<"conn", c>>
Streamer(g) == <<"stream", g>>
SignalHandler == <<"signal", 0>>
TestCaller(k) == <<"caller", k>>
NoProc == <<"none", 0>>

Procs ==
    {BotListener, SignalHandler} \cup {Conn(c) : c \in Chats}
        \cup {Streamer(g) : g \in SessIds} \cup {TestCaller(k) : k \in 1..TestCallers}

\* Message texts, as character sequences.
TxtStart == <<"/","s","t","a","r","t">>
TxtExit == <<"/","e","x","i","t">>
TxtStop == <<"/","s","t","o","p">>
TxtStatus == <<"/","s","t","a","t","u","s">>
TxtTop == <<"t","o","p">>
TxtLs == <<"l","s">>

BotTexts == {TxtStart, TxtExit, TxtStop, TxtStatus, TxtTop, TxtLs}

\* A delete that leaves the map as it is (mutant).
deleteNothing(m, key) == m

\* The built-in delete(m, key) on a session map; 0 stands for no entry.
delete(m, key) == [m EXCEPT ![key] = 0]

\* A Session struct before startSession fills it.
NoSession ==
    [made |-> FALSE, Sink |-> 0, Active |-> FALSE, done |-> "open", doneClosed |-> FALSE,
     closeMu |-> NoProc, doneCloses |-> 0]

\* A Terminal before NewTerminal, and the one NewTerminal returns.
NoTerminal ==
    [tdone |-> "open", outputChan |-> "open", queued |-> 0, child |-> "none",
     ptmx |-> "none", input |-> FALSE, reader |-> "off", doneCloses |-> 0,
     chanCloses |-> 0]

NewTerminal ==
    [NoTerminal EXCEPT !.child = "running", !.ptmx = "open", !.reader = "top"]

NoLocals == [s |-> 0, chat |-> 0, op |-> "", late |-> FALSE, rest |-> <<>>]

NoFrame == [user |-> 0, chat |-> 0, kind |-> "", text |-> <<>>, route |-> ""]

\* The frame slot once its handler has returned: what was sent back, to whom.
Replied(frame, reply) == [NoFrame EXCEPT !.chat = frame.chat, !.route = reply]

Running == panicked = "no" /\ ~exited

idleVars == <<classifyVars, approvalVars, now, authVars, daemonVars, outVars, ptyCap, flow>>

\* The output path of a session that was never started.
NoFlow ==
    [read |-> <<>>, held |-> <<>>, outputChan |-> <<>>, chanClosed |-> FALSE,
     tdone |-> "open", sdone |-> "open", reader |-> "off", streamer |-> "off",
     taken |-> <<>>, buffer |-> <<>>, frames |-> <<>>]

FlowIdle == flow = NoFlow

\* A process that is not a daemon child: no PID file, no cleanup hook.
DaemonIdle == pidFile = "absent" /\ cleanupHook = "none"

SessIdle ==
    /\ DaemonIdle
    /\ ptyCap = MaxSessions
    /\ FlowIdle
    /\ mode = "off"
    /\ allowedUsers = <<>>
    /\ registry = [c \in Chats |-> 0]
    /\ mu = NoProc
    /\ sess = [s \in SessIds |-> NoSession]
    /\ term = [s \in SessIds |-> NoTerminal]
    /\ nextSess = 1
    /\ pc = [p \in Procs |-> "off"]
    /\ loc = [p \in Procs |-> NoLocals]
    /\ upd = [p \in Procs |-> NoFrame]
    /\ panicked = "no"
    /\ exited = FALSE

\* safeCloseDone without the doneClosed test (mutant).
safeCloseDoneUnchecked(sr) ==
    [sr EXCEPT !.done = "closed", !.doneClosed = TRUE,
               !.doneCloses = @ + 1, !.closeMu = NoProc]

\* Session.safeCloseDone, the part under closeMu.
safeCloseDone(sr) ==
    IF ~sr.doneClosed
    THEN [sr EXCEPT !.done = "closed", !.doneClosed = TRUE,
                    !.doneCloses = @ + 1, !.closeMu = NoProc]
    ELSE [sr EXCEPT !.closeMu = NoProc]

\* Where a worker continues when safeCloseDone returns.
AfterSafeClose(op) == IF op = "test" THEN "finished" ELSE "close.select"

\* s.closeMu.Lock() in safeCloseDone.
SafeLock(p) ==
    /\ Running
    /\ pc[p] = "safe.lock"
    /\ sess[loc[p].s].closeMu = NoProc
    /\ sess' = [sess EXCEPT ![loc[p].s].closeMu = p]
    /\ pc' = [pc EXCEPT ![p] = "safe.body"]
    /\ UNCHANGED <<mode, allowedUsers, registry, mu, term, nextSess, loc, upd,
                   panicked, exited, idleVars>>

\* The body of safeCloseDone and the deferred Unlock; close() of a closed
\* channel is a runtime panic.
SafeBody(p) ==
    /\ Running
    /\ pc[p] = "safe.body"
    /\ LET s == loc[p].s
           after == safeCloseDone(sess[s])
       IN  IF after.doneCloses > sess[s].doneCloses /\ sess[s].done = "closed"
           THEN /\ panicked' = "close of closed channel: Session.done"
                /\ sess' = [sess EXCEPT ![s].doneCloses = @ + 1]
                /\ UNCHANGED pc
           ELSE /\ sess' = [sess EXCEPT ![s] = after]
                /\ pc' = [pc EXCEPT ![p] = AfterSafeClose(loc[p].op)]
                /\ UNCHANGED panicked
    /\ UNCHANGED <<mode, allowedUsers, registry, mu, term, nextSess, loc, upd,
                   exited, idleVars>>

\* A select that always falls through to `default` (mutant).
doneNeverSeenClosed(t) == FALSE

\* The select at the top of Terminal.Close: is t.done already closed?
doneAlreadyClosed(t) == t.tdone = "closed"

\* Terminal.Close, the select: `case <-t.done:` or `default:`. The worker
\* remembers the branch it took (op "...": late is TRUE when the call began
\* after an earlier Close had returned).
CloseSelect(p) ==
    /\ Running
    /\ pc[p] = "close.select"
    /\ LET s == loc[p].s
       IN  /\ loc' = [loc EXCEPT ![p].late = term[s].ptmx = "closed"]
           /\ pc' = [pc EXCEPT ![p] = IF doneAlreadyClosed(term[s])
                                      THEN "close.kill" ELSE "close.do"]
    /\ UNCHANGED <<mode, allowedUsers, registry, mu, sess, term, nextSess, upd,
                   panicked, exited, idleVars>>

\* What Terminal.Close leaves behind: t.done closed, the process group killed
\* and reaped, the PTY handle closed.
closedTerminal(t, tookDefault) ==
    [t EXCEPT !.tdone = "closed", !.child = "exited", !.ptmx = "closed",
              !.doneCloses = IF tookDefault THEN @ + 1 ELSE @]

\* Where a worker continues when Terminal.Close returns.
AfterClose(op, rest) ==
    CASE op = "stop" -> "idle"
      [] op = "stream" -> "exit"
      [] op = "sig" -> IF rest = <<>> THEN "sig.return" ELSE "safe.lock"
      [] op = "wstop" -> "wstop.delete"
      [] op = "wstream" -> "exit"
      [] op = "wcleanup" -> "closed"
      [] OTHER -> "idle"

\* Terminal.Close after the select: close(t.done) when the default branch was
\* taken (a runtime panic if another caller closed it in between), then the
\* kill, cmd.Wait() and ptmx.Close(); and the caller's statements up to its next
\* wait: the web bridge's streamer and cleanup() delete the entry and release
\* s.mu, the bot's stopSession reports.
CloseRest(p) ==
    /\ Running
    /\ pc[p] \in {"close.do", "close.kill"}
    /\ LET s == loc[p].s
           op == loc[p].op
           rest == loc[p].rest
       IN  IF pc[p] = "close.do" /\ term[s].tdone = "closed"
           THEN /\ panicked' = "close of closed channel: Terminal.done"
                /\ term' = [term EXCEPT ![s].doneCloses = @ + 1]
                /\ UNCHANGED <<pc, loc, upd, registry, mu>>
           ELSE /\ term' = [term EXCEPT ![s] = closedTerminal(@, pc[p] = "close.do")]
                /\ pc' = [pc EXCEPT ![p] = AfterClose(op, rest)]
                /\ loc' = CASE op = "sig" /\ rest # <<>> ->
                                 [loc EXCEPT ![p] = [NoLocals EXCEPT !.s = Head(rest),
                                                                     !.rest = Tail(rest),
                                                                     !.op = "sig"]]
                            [] op = "wstop" -> [loc EXCEPT ![p].late = FALSE]
                            [] OTHER -> [loc EXCEPT ![p] = NoLocals]
                /\ upd' = CASE op = "stop" ->
                                 [upd EXCEPT ![p] = Replied(upd[p], "session ended")]
                            [] op = "one-shot" ->
                                 [upd EXCEPT ![p] = Replied(upd[p], "one-shot complete")]
                            [] OTHER -> upd
                /\ IF op \in {"wstream", "wcleanup"}
                   THEN /\ registry' = delete(registry, loc[p].chat)
                        /\ mu' = NoProc
                   ELSE UNCHANGED <<registry, mu>>
                /\ UNCHANGED panicked
    /\ UNCHANGED <<mode, allowedUsers, sess, nextSess, exited, idleVars>>

(***************************************************************************)
(* Bot bridge: TelegramBridge.Listen and the handlers it calls             *)
(***************************************************************************)

\* A Listen that knows /exit alone (mutant).
isStopCommandExitOnly(text) == text = TxtExit

\* `text == "/exit" || text == "/stop"` of Listen.
isStopCommand(text) == text = TxtExit \/ text = TxtStop

\* A whitelist test that lets everyone in while the list is empty (mutant).
IsAllowedOrEmptyList(userID, list) ==
    Len(list) = 0 \/ \E i \in 1..Len(list) : userID = list[i]

\* The whitelist loop of Listen.
IsAllowed(userID, list) == \E i \in 1..Len(list) : userID = list[i]

\* `hasSession && session.Active` / `!exists || !session.Active`.
IsActiveSession(s) == s # 0 /\ sess[s].Active

\* One update with a message arrives; Listen handles it up to the first point
\* where the handler waits on other workers.
BotUpdate(userID, chatID, text) ==
    /\ Running
    /\ mode = "bot"
    /\ pc[BotListener] = "idle"
    /\ mu = NoProc
    /\ LET frame == [user |-> userID, chat |-> chatID, kind |-> "message",
                     text |-> text, route |-> ""]
           s == registry[chatID]
       IN  IF ~IsAllowed(userID, allowedUsers)
           THEN /\ upd' = [upd EXCEPT ![BotListener] = Replied(frame, "unauthorized")]
                /\ UNCHANGED <<registry, sess, pc, loc>>
           ELSE IF text = TxtStart
           THEN /\ upd' = [upd EXCEPT ![BotListener] = Replied(frame, "connected")]
                /\ UNCHANGED <<registry, sess, pc, loc>>
           ELSE IF isStopCommand(text)
           THEN \* stopSession, the part under tb.mu
                IF ~IsActiveSession(s)
                THEN /\ upd' = [upd EXCEPT ![BotListener] =
                                    Replied(frame, "no active session")]
                     /\ UNCHANGED <<registry, sess, pc, loc>>
                ELSE /\ upd' = [upd EXCEPT ![BotListener] = [frame EXCEPT !.route = "stop"]]
                     /\ sess' = [sess EXCEPT ![s].Active = FALSE]
                     /\ registry' = delete(registry, chatID)
                     /\ pc' = [pc EXCEPT ![BotListener] = "safe.lock"]
                     /\ loc' = [loc EXCEPT ![BotListener] =
                                    [NoLocals EXCEPT !.s = s, !.chat = chatID, !.op = "stop"]]
           ELSE IF text = TxtStatus
           THEN \* showStatus
                /\ upd' = [upd EXCEPT ![BotListener] =
                               Replied(frame, IF IsActiveSession(s)
                                              THEN "status: active session"
                                              ELSE "status: no active session")]
                /\ UNCHANGED <<registry, sess, pc, loc>>
           ELSE \* handleCommand, the lookup under tb.mu.RLock
                /\ upd' = [upd EXCEPT ![BotListener] = [frame EXCEPT !.route = "handle"]]
                /\ pc' = [pc EXCEPT ![BotListener] = "hc.check"]
                /\ loc' = [loc EXCEPT ![BotListener] =
                               [NoLocals EXCEPT !.s = s, !.chat = chatID]]
                /\ UNCHANGED <<registry, sess>>
    /\ UNCHANGED <<mode, allowedUsers, mu, term, nextSess, panicked, exited, idleVars>>

\* A handleCommand that classifies the text before it looks at the session
\* (mutant).
RouteCommandClassifyFirst(s, text) ==
    IF isInteractiveCommand(text) THEN "new session"
    ELSE IF IsActiveSession(s) THEN "forward"
    ELSE "one-shot"

\* handleCommand after the lookup: forward to the session, start a session, or
\* run a one-shot (bot and web bridge alike).
RouteCommand(s, text) ==
    IF IsActiveSession(s) THEN "forward"
    ELSE IF isInteractiveCommand(text) THEN "new session"
    ELSE "one-shot"

HandleCommandCheck(p) ==
    /\ Running
    /\ pc[p] = "hc.check"
    /\ LET route == RouteCommand(loc[p].s, upd[p].text)
       IN  /\ upd' = [upd EXCEPT ![p].route = route]
           /\ pc' = [pc EXCEPT ![p] = CASE route = "forward" -> "send.text"
                                        [] route = "new session" -> "start.new"
                                        [] OTHER -> "oneshot.run"]
           /\ loc' = [loc EXCEPT ![p].op = route]
    /\ UNCHANGED <<mode, allowedUsers, registry, mu, sess, term, nextSess,
                   panicked, exited, idleVars>>

\* t.ptmx.Write: reaches the PTY while the handle is open.
ptmxWrite(t) == IF t.ptmx = "open" THEN [t EXCEPT !.input = TRUE] ELSE t

\* Terminal.SendCommand, first write (the text).
SendText(p) ==
    /\ Running
    /\ pc[p] = "send.text"
    /\ term' = [term EXCEPT ![loc[p].s] = ptmxWrite(@)]
    /\ pc' = [pc EXCEPT ![p] = "send.cr"]
    /\ UNCHANGED <<mode, allowedUsers, registry, mu, sess, nextSess, loc, upd,
                   panicked, exited, idleVars>>

\* Terminal.SendCommand, second write (the carriage return) after the sleep.
SendCR(p) ==
    /\ Running
    /\ pc[p] = "send.cr"
    /\ term' = [term EXCEPT ![loc[p].s] = ptmxWrite(@)]
    /\ IF loc[p].op \in {"new session", "one-shot"}
       THEN /\ pc' = [pc EXCEPT ![p] = IF loc[p].op = "new session"
                                       THEN "start.spawn" ELSE "oneshot.stream"]
            /\ UNCHANGED <<loc, upd>>
       ELSE /\ pc' = [pc EXCEPT ![p] = "idle"]
            /\ loc' = [loc EXCEPT ![p] = NoLocals]
            /\ upd' = [upd EXCEPT ![p] = Replied(upd[p], "forwarded")]
    /\ UNCHANGED <<mode, allowedUsers, registry, mu, sess, nextSess,
                   panicked, exited, idleVars>>

\* startSession up to the registration: NewTerminal (which may fail), the
\* Session struct, and `sessions[chatID] = session` under the lock.
StartSession(p, ptyOk) ==
    /\ Running
    /\ pc[p] = "start.new"
    /\ mu = NoProc
    /\ IF ptyOk /\ nextSess <= ptyCap
       THEN /\ sess' = [sess EXCEPT ![nextSess] =
                            [NoSession EXCEPT !.made = TRUE, !.Sink = loc[p].chat,
                                              !.Active = TRUE]]
            /\ term' = [term EXCEPT ![nextSess] = NewTerminal]
            /\ registry' = [registry EXCEPT ![loc[p].chat] = nextSess]
            /\ nextSess' = nextSess + 1
            /\ loc' = [loc EXCEPT ![p].s = nextSess]
            /\ pc' = [pc EXCEPT ![p] = "send.text"]
            /\ UNCHANGED upd
       ELSE /\ upd' = [upd EXCEPT ![p] = Replied(upd[p], "error creating session")]
            /\ pc' = [pc EXCEPT ![p] = "idle"]
            /\ loc' = [loc EXCEPT ![p] = NoLocals]
            /\ UNCHANGED <<sess, term, registry, nextSess>>
    /\ UNCHANGED <<mode, allowedUsers, mu, panicked, exited, idleVars>>

\* `go streamSessionOutput(chatID)`, the last statement of startSession.
SpawnStreamer(p) ==
    /\ Running
    /\ pc[p] = "start.spawn"
    /\ pc' = [pc EXCEPT ![p] = "idle", ![Streamer(loc[p].s)] = "lookup"]
    /\ loc' = [loc EXCEPT ![Streamer(loc[p].s)] = [NoLocals EXCEPT !.chat = loc[p].chat],
                          ![p] = NoLocals]
    /\ upd' = [upd EXCEPT ![p] = Replied(upd[p], "session started")]
    /\ UNCHANGED <<mode, allowedUsers, registry, mu, sess, term, nextSess,
                   panicked, exited, idleVars>>

\* executeCommand up to SendCommand: NewTerminal, which may fail. The terminal
\* is a local of the handler: no Session is made of it and the registry is
\* not touched.
executeCommand(p, ptyOk) ==
    /\ Running
    /\ pc[p] = "oneshot.run"
    /\ IF ptyOk /\ nextSess <= ptyCap
       THEN /\ term' = [term EXCEPT ![nextSess] = NewTerminal]
            /\ nextSess' = nextSess + 1
            /\ loc' = [loc EXCEPT ![p].s = nextSess]
            /\ pc' = [pc EXCEPT ![p] = "send.text"]
            /\ UNCHANGED upd
       ELSE /\ upd' = [upd EXCEPT ![p] = Replied(upd[p], "error creating terminal")]
            /\ pc' = [pc EXCEPT ![p] = "idle"]
            /\ loc' = [loc EXCEPT ![p] = NoLocals]
            /\ UNCHANGED <<term, nextSess>>
    /\ UNCHANGED <<mode, allowedUsers, registry, mu, sess, panicked, exited, idleVars>>

\* Terminal.StreamOutput, one round of the select loop that receives a chunk.
StreamOutputRecv(p) ==
    /\ Running
    /\ pc[p] = "oneshot.stream"
    /\ term[loc[p].s].queued > 0
    /\ term' = [term EXCEPT ![loc[p].s].queued = @ - 1]
    /\ UNCHANGED <<mode, allowedUsers, registry, mu, sess, nextSess, pc, loc, upd,
                   panicked, exited, idleVars>>

\* An executeCommand that returns without closing its terminal (mutant).
AfterStreamOutputNoClose == "idle"

\* Where executeCommand continues when StreamOutput returns: `defer
\* terminal.Close()` runs.
AfterStreamOutput == "close.select"

\* Terminal.StreamOutput returns (the output has settled, or the cap is
\* reached), and executeCommand returns into its deferred call.
StreamOutputReturn(p) ==
    /\ Running
    /\ pc[p] = "oneshot.stream"
    /\ pc' = [pc EXCEPT ![p] = AfterStreamOutput]
    /\ loc' = IF AfterStreamOutput = "idle" THEN [loc EXCEPT ![p] = NoLocals] ELSE loc
    /\ upd' = IF AfterStreamOutput = "idle"
              THEN [upd EXCEPT ![p] = Replied(upd[p], "one-shot complete")]
              ELSE upd
    /\ UNCHANGED <<mode, allowedUsers, registry, mu, sess, term, nextSess,
                   panicked, exited, idleVars>>

(***************************************************************************)
(* Terminal.readOutput: the reader worker of one Terminal                  *)
(***************************************************************************)

\* A reader that closes the channel and goes round its loop again (mutant).
readerClosesAndContinues(t) ==
    [t EXCEPT !.outputChan = "closed", !.reader = "top", !.chanCloses = @ + 1]

\* close(t.outputChan) and return; chanCloses counts the calls of close.
readerCloses(t) ==
    [t EXCEPT !.outputChan = "closed", !.reader = "done", !.chanCloses = @ + 1]

\* One iteration of the loop: `select { case <-t.done: ... default: ...Read }`.
\* Read returns bytes, io.EOF after the child is gone, or another error
\* (deadline, closed handle), after which the loop continues. Bytes go to
\* outputChan at once when it has room; otherwise the reader waits in the push.
readOutput(s, outcome) ==
    /\ Running
    /\ term[s].reader = "top"
    /\ IF term[s].tdone = "closed"
       THEN /\ outcome = "stop"
            /\ term' = [term EXCEPT ![s] = readerCloses(@)]
       ELSE CASE outcome = "bytes" ->
                   /\ term[s].child = "running" /\ term[s].ptmx = "open"
                   /\ term' = IF term[s].queued < ChanCap
                              THEN [term EXCEPT ![s].queued = @ + 1]
                              ELSE [term EXCEPT ![s].reader = "pushing"]
              [] outcome = "eof" ->
                   /\ term[s].child # "running" /\ term[s].ptmx = "open"
                   /\ term' = [term EXCEPT ![s] = readerCloses(@)]
              [] OTHER -> FALSE
    /\ UNCHANGED <<mode, allowedUsers, registry, mu, sess, nextSess, pc, loc, upd,
                   panicked, exited, idleVars>>

\* The reader waiting in `select { case t.outputChan <- output: case <-t.done: }`.
readOutputPush(s, stop) ==
    /\ Running
    /\ term[s].reader = "pushing"
    /\ IF stop
       THEN /\ term[s].tdone = "closed"
            /\ term' = [term EXCEPT ![s] = readerCloses(@)]
       ELSE /\ term[s].queued < ChanCap
            /\ term' = [term EXCEPT ![s].queued = @ + 1, ![s].reader = "top"]
    /\ UNCHANGED <<mode, allowedUsers, registry, mu, sess, nextSess, pc, loc, upd,
                   panicked, exited, idleVars>>

\* The shell of a terminal exits by itself.
ChildExit(s) ==
    /\ Running
    /\ term[s].child = "running"
    /\ term' = [term EXCEPT ![s].child = "exited"]
    /\ UNCHANGED <<mode, allowedUsers, registry, mu, sess, nextSess, pc, loc, upd,
                   panicked, exited, idleVars>>

(***************************************************************************)
(* streamSessionOutput: the streamer worker of one session                 *)
(***************************************************************************)

\* The lookup at the start of streamSessionOutput (both bridges).
StreamLookup(g) ==
    /\ Running
    /\ pc[Streamer(g)] = "lookup"
    /\ mu = NoProc
    /\ LET s == registry[loc[Streamer(g)].chat]
       IN  /\ pc' = [pc EXCEPT ![Streamer(g)] = IF s = 0 THEN "exit" ELSE "loop"]
           /\ loc' = [loc EXCEPT ![Streamer(g)].s = s]
    /\ UNCHANGED <<mode, allowedUsers, registry, mu, sess, term, nextSess, upd,
                   panicked, exited, idleVars>>

\* One round of the select loop that ends the streamer: the session's done
\* channel is closed, the output channel is closed and drained, or the idle
\* timeout (a tick more than 30 minutes after the last chunk).  The last two
\* send the user a message before the return.
StreamReturn(g, why) ==
    /\ Running
    /\ pc[Streamer(g)] = "loop"
    /\ LET s == loc[Streamer(g)].s
       IN  CASE why = "stopped" -> sess[s].done = "closed"
             [] why = "exited" -> term[s].outputChan = "closed" /\ term[s].queued = 0
             [] OTHER -> why = "idle timeout"
    /\ pc' = [pc EXCEPT ![Streamer(g)] = "cleanup"]
    /\ upd' = [upd EXCEPT ![Streamer(g)] =
                  Replied([NoFrame EXCEPT !.chat = loc[Streamer(g)].chat],
                          CASE why = "exited" -> "session ended (program exited)"
                            [] why = "idle timeout" -> "session timed out (30min idle)"
                            [] OTHER -> "")]
    /\ UNCHANGED <<mode, allowedUsers, registry, mu, sess, term, nextSess, loc,
                   panicked, exited, idleVars>>

\* One round of the select loop that receives a chunk from outputChan.
StreamRecv(g) ==
    /\ Running
    /\ pc[Streamer(g)] = "loop"
    /\ term[loc[Streamer(g)].s].queued > 0
    /\ term' = [term EXCEPT ![loc[Streamer(g)].s].queued = @ - 1]
    /\ UNCHANGED <<mode, allowedUsers, registry, mu, sess, nextSess, pc, loc, upd,
                   panicked, exited, idleVars>>

\* The deferred cleanup of the bot's streamSessionOutput, the part under tb.mu;
\* Terminal.Close follows after the Unlock.
BotStreamCleanup(g) ==
    /\ Running
    /\ mode = "bot"
    /\ pc[Streamer(g)] = "cleanup"
    /\ mu = NoProc
    /\ LET s == loc[Streamer(g)].s
       IN  IF sess[s].Active
           THEN /\ sess' = [sess EXCEPT ![s].Active = FALSE]
                /\ registry' = delete(registry, loc[Streamer(g)].chat)
           ELSE UNCHANGED <<sess, registry>>
    /\ pc' = [pc EXCEPT ![Streamer(g)] = "close.select"]
    /\ loc' = [loc EXCEPT ![Streamer(g)].op = "stream"]
    /\ UNCHANGED <<mode, allowedUsers, mu, term, nextSess, upd, panicked, exited,
                   idleVars>>

(***************************************************************************)
(* Bot bridge: the signal handler of Listen                                *)
(***************************************************************************)

\* The orders in which `for chatID, session := range tb.sessions` may visit S.
Orders(S) ==
    {q \in SeqsUpTo(S, Cardinality(S)) :
        Len(q) = Cardinality(S) /\ {q[i] : i \in 1..Len(q)} = S}

\* SIGINT / SIGTERM: CleanupAllSessions, the part under tb.mu.
CleanupAllSessions(order) ==
    /\ Running
    /\ mode = "bot"
    /\ pc[SignalHandler] = "wait"
    /\ mu = NoProc
    /\ order \in Orders({registry[c] : c \in {d \in Chats : IsActiveSession(registry[d])}})
    /\ sess' = [s \in SessIds |->
                   IF \E i \in 1..Len(order) : order[i] = s
                   THEN [sess[s] EXCEPT !.Active = FALSE] ELSE sess[s]]
    /\ registry' = [c \in Chats |-> 0]
    /\ IF order = <<>>
       THEN /\ pc' = [pc EXCEPT ![SignalHandler] = "sig.return"]
            /\ UNCHANGED loc
       ELSE /\ pc' = [pc EXCEPT ![SignalHandler] = "safe.lock"]
            /\ loc' = [loc EXCEPT ![SignalHandler] =
                           [NoLocals EXCEPT !.s = Head(order), !.rest = Tail(order),
                                            !.op = "sig"]]
    /\ UNCHANGED <<mode, allowedUsers, mu, term, nextSess, upd, panicked, exited,
                   idleVars>>

\* CleanupAllSessions after its closing loop: the log line and the return.
CleanupAllSessionsReturn ==
    /\ Running
    /\ pc[SignalHandler] = "sig.return"
    /\ pc' = [pc EXCEPT ![SignalHandler] = "sig.exit"]
    /\ UNCHANGED <<mode, allowedUsers, registry, mu, sess, term, nextSess, loc, upd,
                   panicked, exited, idleVars>>

\* os.Exit(0) after CleanupAllSessions returned.
SignalExit ==
    /\ Running
    /\ pc[SignalHandler] = "sig.exit"
    /\ exited' = TRUE
    /\ UNCHANGED <<mode, allowedUsers, registry, mu, sess, term, nextSess, pc, loc, upd,
                   panicked, idleVars>>

BotInit ==
    /\ mode = "bot"
    /\ allowedUsers \in {<<>>, <<101>>}
    /\ registry = [c \in Chats |-> 0]
    /\ mu = NoProc
    /\ sess = [s \in SessIds |-> NoSession]
    /\ term = [s \in SessIds |-> NoTerminal]
    /\ nextSess = 1
    /\ pc = [p \in Procs |-> CASE p = BotListener -> "idle"
                               [] p = SignalHandler -> "wait"
                               [] OTHER -> "off"]
    /\ loc = [p \in Procs |-> NoLocals]
    /\ upd = [p \in Procs |-> NoFrame]
    /\ panicked = "no"
    /\ exited = FALSE

\* main for `--daemon-child` (daemonize has written the PID file): the hook
\* daemonCleanupHook = removePIDFile is installed; otherwise there is neither.
DaemonChildInit(isDaemonChild) ==
    IF isDaemonChild
    THEN pidFile = "present" /\ cleanupHook = "removePIDFile"
    ELSE DaemonIdle

\* Steps of the workers both bridges have.
WorkerNext ==
    \/ \E p \in Procs : SafeLock(p) \/ SafeBody(p)
    \/ \E p \in Procs : CloseSelect(p) \/ CloseRest(p)
    \/ \E p \in Procs : HandleCommandCheck(p) \/ SendText(p) \/ SendCR(p)
    \/ \E p \in Procs, ok \in BOOLEAN : StartSession(p, ok) \/ executeCommand(p, ok)
    \/ \E p \in Procs : SpawnStreamer(p)
    \/ \E p \in Procs : StreamOutputRecv(p) \/ StreamOutputReturn(p)
    \/ \E s \in SessIds : ChildExit(s)
    \/ \E s \in SessIds, o \in {"stop", "bytes", "eof"} : readOutput(s, o)
    \/ \E s \in SessIds, stop \in BOOLEAN : readOutputPush(s, stop)
    \/ \E g \in SessIds : StreamLookup(g) \/ StreamRecv(g)
    \/ \E g \in SessIds, why \in {"stopped", "exited", "idle timeout"} : StreamReturn(g, why)

BotNext ==
    \/ \E u \in Users, c \in Chats, t \in BotTexts : BotUpdate(u, c, t)
    \/ \E g \in SessIds : BotStreamCleanup(g)
    \/ \E o \in SeqsUpTo(SessIds, Cardinality(SessIds)) : CleanupAllSessions(o)
    \/ CleanupAllSessionsReturn
    \/ SignalExit

(***************************************************************************)
(* Web bridge: WebUIServer.handleWebSocket after the upgrade               *)
(***************************************************************************)

WebKinds == {"command", "input", "resize", "stop", "status", "ping"}

WebTexts == {TxtTop, TxtLs}

\* handleWebSocket after the upgrade: the connection gets its id and
\* startShellSession runs (NewTerminal, which may fail, the registration under
\* s.mu, `go streamSessionOutput`).
startShellSession(c, ptyOk) ==
    /\ Running
    /\ mode = "web"
    /\ pc[Conn(c)] = "upgraded"
    /\ mu = NoProc
    /\ IF ptyOk /\ nextSess <= ptyCap
       THEN /\ sess' = [sess EXCEPT ![nextSess] =
                            [NoSession EXCEPT !.made = TRUE, !.Sink = c, !.Active = TRUE]]
            /\ term' = [term EXCEPT ![nextSess] = NewTerminal]
            /\ registry' = [registry EXCEPT ![c] = nextSess]
            /\ nextSess' = nextSess + 1
            /\ pc' = [pc EXCEPT ![Conn(c)] = "idle", ![Streamer(nextSess)] = "lookup"]
            /\ loc' = [loc EXCEPT ![Streamer(nextSess)] = [NoLocals EXCEPT !.chat = c]]
            /\ upd' = [upd EXCEPT ![Conn(c)] = Replied([NoFrame EXCEPT !.chat = c],
                                                       "shell started")]
       ELSE /\ upd' = [upd EXCEPT ![Conn(c)] = Replied([NoFrame EXCEPT !.chat = c],
                                                       "error creating terminal")]
            /\ pc' = [pc EXCEPT ![Conn(c)] = "idle"]
            /\ UNCHANGED <<sess, term, registry, nextSess, loc>>
    /\ UNCHANGED <<mode, allowedUsers, mu, panicked, exited, idleVars>>

\* conn.ReadJSON returned a frame: the dispatch on msg.Type and the handler's
\* lookup under s.mu. showStatus and handleResize (rows, cols > 0) finish here;
\* a frame of any other type is dropped.
WebFrame(c, kind, text) ==
    /\ Running
    /\ mode = "web"
    /\ pc[Conn(c)] = "idle"
    /\ mu = NoProc
    /\ LET p == Conn(c)
           frame == [user |-> 0, chat |-> c, kind |-> kind, text |-> text, route |-> ""]
           s == registry[c]
           found == [NoLocals EXCEPT !.s = s, !.chat = c]
       IN  CASE kind = "command" ->
                  /\ upd' = [upd EXCEPT ![p] = [frame EXCEPT !.route = "handle"]]
                  /\ pc' = [pc EXCEPT ![p] = "hc.check"]
                  /\ loc' = [loc EXCEPT ![p] = found]
             [] kind = "input" ->
                  /\ upd' = [upd EXCEPT ![p] = [frame EXCEPT !.route = "raw"]]
                  /\ pc' = [pc EXCEPT ![p] = "in.check"]
                  /\ loc' = [loc EXCEPT ![p] = found]
             [] kind = "stop" ->
                  /\ upd' = [upd EXCEPT ![p] = [frame EXCEPT !.route = "stop"]]
                  /\ pc' = [pc EXCEPT ![p] = "wstop.check"]
                  /\ loc' = [loc EXCEPT ![p] = [found EXCEPT !.op = "wstop"]]
             [] kind = "status" ->
                  /\ upd' = [upd EXCEPT ![p] =
                                 Replied(frame, IF IsActiveSession(s)
                                                THEN "status: active session"
                                                ELSE "status: no active session")]
                  /\ UNCHANGED <<pc, loc>>
             [] kind = "resize" ->
                  /\ upd' = [upd EXCEPT ![p] =
                                 Replied(frame, IF IsActiveSession(s)
                                                THEN "resized" ELSE "ignored")]
                  /\ UNCHANGED <<pc, loc>>
             [] OTHER ->
                  /\ upd' = [upd EXCEPT ![p] = Replied(frame, "ignored")]
                  /\ UNCHANGED <<pc, loc>>
    /\ UNCHANGED <<mode, allowedUsers, registry, mu, sess, term, nextSess,
                   panicked, exited, idleVars>>

\* handleRawInput after the lookup: `if !hasSession || !session.Active { return }`.
handleRawInput(p) ==
    /\ Running
    /\ pc[p] = "in.check"
    /\ IF IsActiveSession(loc[p].s)
       THEN /\ pc' = [pc EXCEPT ![p] = "send.raw"]
            /\ UNCHANGED <<upd, loc>>
       ELSE /\ pc' = [pc EXCEPT ![p] = "idle"]
            /\ upd' = [upd EXCEPT ![p] = Replied(upd[p], "ignored")]
            /\ loc' = [loc EXCEPT ![p] = NoLocals]
    /\ UNCHANGED <<mode, allowedUsers, registry, mu, sess, term, nextSess,
                   panicked, exited, idleVars>>

\* Terminal.SendRawInput.
SendRawInput(p) ==
    /\ Running
    /\ pc[p] = "send.raw"
    /\ term' = [term EXCEPT ![loc[p].s] = ptmxWrite(@)]
    /\ pc' = [pc EXCEPT ![p] = "idle"]
    /\ upd' = [upd EXCEPT ![p] = Replied(upd[p], "forwarded")]
    /\ loc' = [loc EXCEPT ![p] = NoLocals]
    /\ UNCHANGED <<mode, allowedUsers, registry, mu, sess, nextSess,
                   panicked, exited, idleVars>>

\* The web stopSession after the lookup: the check of session.Active, outside
\* the lock.
WebStopCheck(p) ==
    /\ Running
    /\ pc[p] = "wstop.check"
    /\ IF IsActiveSession(loc[p].s)
       THEN /\ pc' = [pc EXCEPT ![p] = "wstop.signal"]
            /\ UNCHANGED <<upd, loc>>
       ELSE /\ pc' = [pc EXCEPT ![p] = "idle"]
            /\ upd' = [upd EXCEPT ![p] = Replied(upd[p], "no active session")]
            /\ loc' = [loc EXCEPT ![p] = NoLocals]
    /\ UNCHANGED <<mode, allowedUsers, registry, mu, sess, term, nextSess,
                   panicked, exited, idleVars>>

\* The web stopSession: `session.Active = false; close(session.done)`;
\* Terminal.Close follows.
WebStopSignal(p) ==
    /\ Running
    /\ pc[p] = "wstop.signal"
    /\ LET s == loc[p].s
       IN  IF sess[s].done = "closed"
           THEN /\ panicked' = "close of closed channel: Session.done"
                /\ sess' = [sess EXCEPT ![s].Active = FALSE, ![s].doneCloses = @ + 1]
                /\ UNCHANGED pc
           ELSE /\ sess' = [sess EXCEPT ![s].Active = FALSE, ![s].done = "closed",
                                        ![s].doneCloses = @ + 1]
                /\ pc' = [pc EXCEPT ![p] = "close.select"]
                /\ UNCHANGED panicked
    /\ UNCHANGED <<mode, allowedUsers, registry, mu, term, nextSess, loc, upd,
                   exited, idleVars>>

\* The web stopSession after Terminal.Close: delete under s.mu, SendStatus.
WebStopDelete(p) ==
    /\ Running
    /\ pc[p] = "wstop.delete"
    /\ mu = NoProc
    /\ registry' = delete(registry, loc[p].chat)
    /\ pc' = [pc EXCEPT ![p] = "idle"]
    /\ upd' = [upd EXCEPT ![p] = Replied(upd[p], "session ended")]
    /\ loc' = [loc EXCEPT ![p] = NoLocals]
    /\ UNCHANGED <<mode, allowedUsers, mu, sess, term, nextSess, panicked, exited,
                   idleVars>>

\* The deferred cleanup of the web streamSessionOutput: under s.mu, and with
\* s.mu held through Terminal.Close when the session is still active.
WebStreamCleanup(g) ==
    /\ Running
    /\ mode = "web"
    /\ pc[Streamer(g)] = "cleanup"
    /\ mu = NoProc
    /\ LET s == loc[Streamer(g)].s
       IN  IF sess[s].Active
           THEN /\ sess' = [sess EXCEPT ![s].Active = FALSE]
                /\ mu' = Streamer(g)
                /\ pc' = [pc EXCEPT ![Streamer(g)] = "close.select"]
                /\ loc' = [loc EXCEPT ![Streamer(g)].op = "wstream"]
           ELSE /\ pc' = [pc EXCEPT ![Streamer(g)] = "exit"]
                /\ loc' = [loc EXCEPT ![Streamer(g)] = NoLocals]
                /\ UNCHANGED <<sess, mu>>
    /\ UNCHANGED <<mode, allowedUsers, registry, term, nextSess, upd, panicked, exited,
                   idleVars>>

\* What makes conn.ReadJSON return an error: the client went away, or it sent
\* a frame that does not decode into a WebMessage.
ReadErrors == {"close", "malformed JSON"}

\* conn.ReadJSON failed, whatever the error: cleanup(chatID), under s.mu and
\* with s.mu held through Terminal.Close; then the handler returns.
cleanup(c, err) ==
    /\ Running
    /\ mode = "web"
    /\ pc[Conn(c)] = "idle"
    /\ mu = NoProc
    /\ LET s == registry[c]
       IN  IF IsActiveSession(s)
           THEN /\ sess' = [sess EXCEPT ![s].Active = FALSE]
                /\ mu' = Conn(c)
                /\ pc' = [pc EXCEPT ![Conn(c)] = "close.select"]
                /\ loc' = [loc EXCEPT ![Conn(c)] =
                               [NoLocals EXCEPT !.s = s, !.chat = c, !.op = "wcleanup"]]
           ELSE /\ pc' = [pc EXCEPT ![Conn(c)] = "closed"]
                /\ UNCHANGED <<sess, mu, loc>>
    /\ upd' = [upd EXCEPT ![Conn(c)] =
                   [NoFrame EXCEPT !.chat = c, !.kind = err, !.route = "disconnected"]]
    /\ UNCHANGED <<mode, allowedUsers, registry, term, nextSess, panicked, exited,
                   idleVars>>

\* A web server with no session yet; connPc is "off" before any request and
\* "upgraded" for connections that have passed handleWebSocket's admission.
WebInit(connPc) ==
    /\ mode = "web"
    /\ allowedUsers = <<>>
    /\ registry = [c \in Chats |-> 0]
    /\ mu = NoProc
    /\ sess = [s \in SessIds |-> NoSession]
    /\ term = [s \in SessIds |-> NoTerminal]
    /\ nextSess = 1
    /\ pc = [p \in Procs |-> IF p \in {Conn(c) : c \in Chats} THEN connPc ELSE "off"]
    /\ loc = [p \in Procs |-> NoLocals]
    /\ upd = [p \in Procs |-> NoFrame]
    /\ panicked = "no"
    /\ exited = FALSE

WebNext ==
    \/ \E c \in Chats, ok \in BOOLEAN : startShellSession(c, ok)
    \/ \E c \in Chats, k \in WebKinds, t \in WebTexts : WebFrame(c, k, t)
    \/ \E p \in Procs : handleRawInput(p) \/ SendRawInput(p)
    \/ \E p \in Procs : WebStopCheck(p) \/ WebStopSignal(p) \/ WebStopDelete(p)
    \/ \E g \in SessIds : WebStreamCleanup(g)
    \/ \E c \in Chats, err \in ReadErrors : cleanup(c, err)

(***************************************************************************)
(* TestSessionSafeCloseDoneConcurrent: callers of safeCloseDone on one     *)
(* Session                                                                 *)
(***************************************************************************)

TestInit ==
    /\ mode = "test"
    /\ allowedUsers = <<>>
    /\ registry = [c \in Chats |-> 0]
    /\ mu = NoProc
    /\ sess = [s \in SessIds |-> IF s = 1 THEN [NoSession EXCEPT !.made = TRUE]
                                 ELSE NoSession]
    /\ term = [s \in SessIds |-> NoTerminal]
    /\ nextSess = 2
    /\ pc = [p \in Procs |-> IF p \in {TestCaller(k) : k \in 1..TestCallers}
                             THEN "safe.lock" ELSE "off"]
    /\ loc = [p \in Procs |-> IF p \in {TestCaller(k) : k \in 1..TestCallers}
                              THEN [NoLocals EXCEPT !.s = 1, !.op = "test"]
                              ELSE NoLocals]
    /\ upd = [p \in Procs |-> NoFrame]
    /\ panicked = "no"
    /\ exited = FALSE

(***************************************************************************)
(* The output path of one socket session, with the bytes it carries:       *)
(* PTY -> Terminal.readOutput -> outputChan -> streamSessionOutput ->      *)
(* WebSocketSink.SendOutput -> the frames the client decodes.              *)
(***************************************************************************)

\* Byte values the child writes: an ASCII letter, and the lead and the
\* continuation byte of a two-byte UTF-8 sequence (195 169 is U+00E9).
Bytes == {65, 195, 169}

\* Bytes the reader takes from the PTY in one run.
MaxRead == 3

\* Longest chunk one ptmx.Read returns (8192 in the source).
MaxChunk == 2

Chunks == SeqsUpTo(Bytes, MaxChunk) \ {<<>>}

\* U+FFFD in UTF-8.
Replacement == <<239, 191, 189>>

\* The Content of an output frame as the client decodes it.  SendOutput
\* hands the Go string to conn.WriteJSON; encoding/json writes a string
\* coerced to valid UTF-8, each invalid byte replaced by U+FFFD (the byte
\* values here form one- and two-byte sequences only).
RECURSIVE jsonString(_)
jsonString(b) ==
    IF b = <<>> THEN <<>>
    ELSE IF Head(b) < 128 THEN <<Head(b)>> \o jsonString(Tail(b))
    ELSE IF Head(b) \in 194..223 /\ Len(b) >= 2 /\ b[2] \in 128..191
         THEN <<b[1], b[2]>> \o jsonString(Tail(Tail(b)))
    ELSE Replacement \o jsonString(Tail(b))

SendOutput(buffer) == jsonString(buffer)

RECURSIVE Concat(_)
Concat(chunks) ==
    IF chunks = <<>> THEN <<>> ELSE Head(chunks) \o Concat(Tail(chunks))

IsPrefix(a, b) == Len(a) <= Len(b) /\ SubSeq(b, 1, Len(a)) = a

\* startShellSession: NewTerminal starts the reader, `go streamSessionOutput`
\* the streamer.
FlowInit ==
    flow = [NoFlow EXCEPT !.reader = "top", !.streamer = "loop"]

\* readOutput, top of the loop, `case <-t.done`: close(t.outputChan), return.
readerDone ==
    /\ flow.reader = "top"
    /\ flow.tdone = "closed"
    /\ flow' = [flow EXCEPT !.chanClosed = TRUE, !.reader = "returned"]
    /\ UNCHANGED <<classifyVars, approvalVars, now, authVars, daemonVars, outVars, ptyCap,
                   mode, allowedUsers, registry, mu, sess, term, nextSess, pc, loc, upd,
                   panicked, exited>>

\* readOutput, `default`: ptmx.Read returns n > 0 bytes, output := string(buf[:n]).
ptmxRead(chunk) ==
    /\ flow.reader = "top"
    /\ flow.tdone = "open"
    /\ Len(flow.read) + Len(chunk) <= MaxRead
    /\ flow' = [flow EXCEPT !.read = @ \o chunk, !.held = chunk, !.reader = "send"]
    /\ UNCHANGED <<classifyVars, approvalVars, now, authVars, daemonVars, outVars, ptyCap,
                   mode, allowedUsers, registry, mu, sess, term, nextSess, pc, loc, upd,
                   panicked, exited>>

\* readOutput, `default`: ptmx.Read returns io.EOF (the child exited):
\* close(t.outputChan), return.
ptmxEOF ==
    /\ flow.reader = "top"
    /\ flow.tdone = "open"
    /\ flow' = [flow EXCEPT !.chanClosed = TRUE, !.reader = "returned"]
    /\ UNCHANGED <<classifyVars, approvalVars, now, authVars, daemonVars, outVars, ptyCap,
                   mode, allowedUsers, registry, mu, sess, term, nextSess, pc, loc, upd,
                   panicked, exited>>

\* readOutput, the inner select, `case t.outputChan <- output`: possible
\* while the channel has room.
outputChanSend ==
    /\ flow.reader = "send"
    /\ Len(flow.outputChan) < ChanCap
    /\ flow' = [flow EXCEPT !.outputChan = Append(@, flow.held), !.held = <<>>,
                            !.reader = "top"]
    /\ UNCHANGED <<classifyVars, approvalVars, now, authVars, daemonVars, outVars, ptyCap,
                   mode, allowedUsers, registry, mu, sess, term, nextSess, pc, loc, upd,
                   panicked, exited>>

\* readOutput, the inner select, `case <-t.done`: close(t.outputChan), return;
\* the chunk in `output` goes nowhere.
outputChanAbandon ==
    /\ flow.reader = "send"
    /\ flow.tdone = "closed"
    /\ flow' = [flow EXCEPT !.held = <<>>, !.chanClosed = TRUE, !.reader = "returned"]
    /\ UNCHANGED <<classifyVars, approvalVars, now, authVars, daemonVars, outVars, ptyCap,
                   mode, allowedUsers, registry, mu, sess, term, nextSess, pc, loc, upd,
                   panicked, exited>>

\* stopSession: close(session.done).
closeSessionDone ==
    /\ flow.streamer # "off"
    /\ flow.sdone = "open"
    /\ flow' = [flow EXCEPT !.sdone = "closed"]
    /\ UNCHANGED <<classifyVars, approvalVars, now, authVars, daemonVars, outVars, ptyCap,
                   mode, allowedUsers, registry, mu, sess, term, nextSess, pc, loc, upd,
                   panicked, exited>>

\* Terminal.Close (from stopSession, cleanup or the streamer's deferred
\* cleanup): close(t.done).
closeTerminalDone ==
    /\ flow.streamer # "off"
    /\ flow.tdone = "open"
    /\ flow' = [flow EXCEPT !.tdone = "closed"]
    /\ UNCHANGED <<classifyVars, approvalVars, now, authVars, daemonVars, outVars, ptyCap,
                   mode, allowedUsers, registry, mu, sess, term, nextSess, pc, loc, upd,
                   panicked, exited>>

\* streamSessionOutput, `case <-session.done`: send what is buffered, return.
streamStopped ==
    /\ flow.streamer = "loop"
    /\ flow.sdone = "closed"
    /\ flow' = [flow EXCEPT !.frames = @ \o SendOutput(flow.buffer), !.buffer = <<>>,
                            !.streamer = "returned"]
    /\ UNCHANGED <<classifyVars, approvalVars, now, authVars, daemonVars, outVars, ptyCap,
                   mode, allowedUsers, registry, mu, sess, term, nextSess, pc, loc, upd,
                   panicked, exited>>

\* streamSessionOutput, `case output, ok := <-session.Terminal.outputChan`
\* with ok: buffer += output.
streamOutput ==
    /\ flow.streamer = "loop"
    /\ flow.outputChan # <<>>
    /\ flow' = [flow EXCEPT !.outputChan = Tail(@),
                            !.taken = @ \o Head(flow.outputChan),
                            !.buffer = @ \o Head(flow.outputChan)]
    /\ UNCHANGED <<classifyVars, approvalVars, now, authVars, daemonVars, outVars, ptyCap,
                   mode, allowedUsers, registry, mu, sess, term, nextSess, pc, loc, upd,
                   panicked, exited>>

\* The same case with !ok (channel closed and drained): send what is
\* buffered, send the status, return.
streamExited ==
    /\ flow.streamer = "loop"
    /\ flow.outputChan = <<>>
    /\ flow.chanClosed
    /\ flow' = [flow EXCEPT !.frames = @ \o SendOutput(flow.buffer), !.buffer = <<>>,
                            !.streamer = "returned"]
    /\ UNCHANGED <<classifyVars, approvalVars, now, authVars, daemonVars, outVars, ptyCap,
                   mode, allowedUsers, registry, mu, sess, term, nextSess, pc, loc, upd,
                   panicked, exited>>

\* streamSessionOutput, `case <-ticker.C` more than 1 ms after the last
\* chunk: SendOutput(buffer), buffer = "".
streamTick ==
    /\ flow.streamer = "loop"
    /\ flow.buffer # <<>>
    /\ flow' = [flow EXCEPT !.frames = @ \o SendOutput(flow.buffer), !.buffer = <<>>]
    /\ UNCHANGED <<classifyVars, approvalVars, now, authVars, daemonVars, outVars, ptyCap,
                   mode, allowedUsers, registry, mu, sess, term, nextSess, pc, loc, upd,
                   panicked, exited>>

\* The same case 30 minutes after the last chunk: the buffer was sent by the
\* test before; send the status, return.
streamIdleTimeout ==
    /\ flow.streamer = "loop"
    /\ flow' = [flow EXCEPT !.frames = @ \o SendOutput(flow.buffer), !.buffer = <<>>,
                            !.streamer = "returned"]
    /\ UNCHANGED <<classifyVars, approvalVars, now, authVars, daemonVars, outVars, ptyCap,
                   mode, allowedUsers, registry, mu, sess, term, nextSess, pc, loc, upd,
                   panicked, exited>>

FlowNext ==
    \/ readerDone
    \/ \E chunk \in Chunks : ptmxRead(chunk)
    \/ ptmxEOF
    \/ outputChanSend
    \/ outputChanAbandon
    \/ closeSessionDone
    \/ closeTerminalDone
    \/ streamStopped
    \/ streamOutput
    \/ streamExited
    \/ streamTick
    \/ streamIdleTimeout

(***************************************************************************)
(* Web UI admission: setup-password, login, logout, the session-token map  *)
(* and the /ws upgrade                                                      *)
(***************************************************************************)

\* Session tokens one run issues (generateSessionToken draws 32 random bytes;
\* the n-th token issued is modelled as the number n).
MaxTokens == 2

\* POST /setup-password requests in flight at the same time.
MaxSetupPosts == 2

\* WebSocket connections one run of the admission handlers upgrades.
MaxConns == 1

\* Token lifetime, in hours.
TokenHours == 24

\* The clock of the admission handlers, in hours: step and horizon.
TickHours == 24
MaxAuthNow == 48

Tokens == 1..MaxTokens

\* Cookie values a request may carry: 0 is "no session cookie", -1 a value the
\* server never issued.
Cookies == {0, -1} \cup Tokens

Passwords == {"", "pw1", "pw2"}

Methods == {"GET", "POST"}

ServerHost == "localhost:8080"

\* Host headers a request may carry.
Hosts == {ServerHost, "evil.example"}

\* Origin headers: <<>> is the empty header, <<scheme, host>> the string
\* scheme followed by host.
Origins ==
    {<<>>, <<"http://", ServerHost>>, <<"https://", ServerHost>>,
     <<"ws://", ServerHost>>, <<"http://", "evil.example">>}

NoHash == <<>>

NoExpiry == -1

\* bcrypt.GenerateFromPassword / bcrypt.CompareHashAndPassword.
bcryptHash(password) == <<"$2a$", password>>

bcryptMatches(hash, password) == hash = bcryptHash(password)

NoResponse == [path |-> "", status |-> "", body |-> "", setCookie |-> 0]

Response(path, status, body, setCookie) ==
    [path |-> path, status |-> status, body |-> body, setCookie |-> setCookie]

AuthIdle(n) ==
    /\ passwordHash = NoHash
    /\ webDisk = NoHash
    /\ authSessions = [t \in Tokens |-> NoExpiry]
    /\ issued = 0
    /\ nextID = n
    /\ setupPc = [k \in 1..MaxSetupPosts |-> "none"]
    /\ setupPw = [k \in 1..MaxSetupPosts |-> ""]
    /\ resp = NoResponse

\* upgrader.CheckOrigin that compares the host only (mutant).
CheckOriginAnyScheme(origin, host) == origin = <<>> \/ origin[2] = host

\* upgrader.CheckOrigin.
CheckOrigin(origin, host) ==
    origin = <<>> \/ origin = <<"http://", host>> \/ origin = <<"https://", host>>

\* isAuthenticated that does not compare the expiry with the clock (mutant).
isAuthenticatedNoExpiry(cookie) ==
    /\ cookie \in Tokens
    /\ authSessions[cookie] # NoExpiry

\* isAuthenticated: its result, and the token map it leaves (an expired entry
\* is deleted by the lookup).
isAuthenticated(cookie) ==
    /\ cookie \in Tokens
    /\ authSessions[cookie] # NoExpiry
    /\ ~(now > authSessions[cookie])

afterLookup(cookie) ==
    IF cookie \in Tokens /\ authSessions[cookie] # NoExpiry /\ now > authSessions[cookie]
    THEN [authSessions EXCEPT ![cookie] = NoExpiry]
    ELSE authSessions

\* createAuthSession: a fresh token, valid for 24 hours.
createAuthSession(sessions) == [sessions EXCEPT ![issued + 1] = now + TokenHours]

\* handleRoot that serves the terminal page to every request once a hash is
\* configured (mutant).
handleRootSkipLogin(cookie) ==
    /\ mode = "web"
    /\ resp' = Response("/", "200 OK",
                        IF passwordHash = NoHash THEN "setup page" ELSE "terminal page", 0)
    /\ UNCHANGED <<authSessions, passwordHash, webDisk, issued, nextID, setupPc, setupPw,
                   classifyVars, approvalVars, now, sessVars>>

\* GET /: setup page, login page or terminal page.
handleRoot(cookie) ==
    /\ mode = "web"
    /\ IF passwordHash = NoHash
       THEN /\ resp' = Response("/", "200 OK", "setup page", 0)
            /\ UNCHANGED authSessions
       ELSE /\ resp' = Response("/", "200 OK",
                                IF isAuthenticated(cookie) THEN "terminal page"
                                ELSE "login page", 0)
            /\ authSessions' = afterLookup(cookie)
    /\ UNCHANGED <<passwordHash, webDisk, issued, nextID, setupPc, setupPw,
                   classifyVars, approvalVars, now, sessVars>>

\* POST /setup-password up to the bcrypt call: the method test, the test for a
\* configured hash, and the validation of the form.
handleSetupPassword(k, method, password, confirm) ==
    /\ mode = "web"
    /\ setupPc[k] = "none"
    /\ \A j \in 1..(k - 1) : setupPc[j] # "none"   \* requests take the lowest free slot
    /\ IF method # "POST"
       THEN /\ resp' = Response("/setup-password", "405 Method Not Allowed", "", 0)
            /\ UNCHANGED <<setupPc, setupPw>>
       ELSE IF passwordHash # NoHash
       THEN /\ resp' = Response("/setup-password", "303 See Other", "", 0)
            /\ UNCHANGED <<setupPc, setupPw>>
       ELSE IF password = ""
       THEN /\ resp' = Response("/setup-password", "200 OK",
                                "setup page: Password cannot be empty", 0)
            /\ UNCHANGED <<setupPc, setupPw>>
       ELSE IF password # confirm
       THEN /\ resp' = Response("/setup-password", "200 OK",
                                "setup page: Passwords do not match", 0)
            /\ UNCHANGED <<setupPc, setupPw>>
       ELSE /\ setupPc' = [setupPc EXCEPT ![k] = "hashing"]
            /\ setupPw' = [setupPw EXCEPT ![k] = password]
            /\ UNCHANGED resp
    /\ UNCHANGED <<passwordHash, webDisk, authSessions, issued, nextID,
                   classifyVars, approvalVars, now, sessVars>>

\* POST /setup-password from the bcrypt call on: store the hash, saveConfig
\* (a failure is only logged), createAuthSession, the cookie, the redirect.
handleSetupPasswordStore(k, hashOk, writeOk) ==
    /\ mode = "web"
    /\ setupPc[k] = "hashing"
    /\ setupPc' = [setupPc EXCEPT ![k] = "none"]
    /\ setupPw' = [setupPw EXCEPT ![k] = ""]
    /\ IF ~hashOk
       THEN /\ resp' = Response("/setup-password", "500 Internal Server Error", "", 0)
            /\ UNCHANGED <<passwordHash, webDisk, authSessions, issued>>
       ELSE /\ issued < MaxTokens
            /\ passwordHash' = bcryptHash(setupPw[k])
            /\ webDisk' = IF writeOk THEN bcryptHash(setupPw[k]) ELSE webDisk
            /\ authSessions' = createAuthSession(authSessions)
            /\ issued' = issued + 1
            /\ resp' = Response("/setup-password", "303 See Other", "", issued + 1)
    /\ UNCHANGED <<nextID, classifyVars, approvalVars, now, sessVars>>

\* POST /login.
handleLogin(method, password) ==
    /\ mode = "web"
    /\ IF method # "POST"
       THEN /\ resp' = Response("/login", "405 Method Not Allowed", "", 0)
            /\ UNCHANGED <<authSessions, issued>>
       ELSE IF passwordHash = NoHash
       THEN /\ resp' = Response("/login", "303 See Other", "", 0)
            /\ UNCHANGED <<authSessions, issued>>
       ELSE IF ~bcryptMatches(passwordHash, password)
       THEN /\ resp' = Response("/login", "200 OK", "login page: Invalid password", 0)
            /\ UNCHANGED <<authSessions, issued>>
       ELSE /\ issued < MaxTokens
            /\ authSessions' = createAuthSession(authSessions)
            /\ issued' = issued + 1
            /\ resp' = Response("/login", "303 See Other", "", issued + 1)
    /\ UNCHANGED <<passwordHash, webDisk, nextID, setupPc, setupPw,
                   classifyVars, approvalVars, now, sessVars>>

\* handleLogout that clears the cookie and leaves the token map alone (mutant).
handleLogoutCookieOnly(cookie) ==
    /\ mode = "web"
    /\ resp' = Response("/logout", "303 See Other", "", -1)
    /\ UNCHANGED <<authSessions, passwordHash, webDisk, issued, nextID, setupPc, setupPw,
                   classifyVars, approvalVars, now, sessVars>>

\* /logout: delete the token the cookie names, clear the cookie, redirect.
handleLogout(cookie) ==
    /\ mode = "web"
    /\ authSessions' = IF cookie \in Tokens
                       THEN [authSessions EXCEPT ![cookie] = NoExpiry]
                       ELSE authSessions
    /\ resp' = Response("/logout", "303 See Other", "", -1)
    /\ UNCHANGED <<passwordHash, webDisk, issued, nextID, setupPc, setupPw,
                   classifyVars, approvalVars, now, sessVars>>

\* GET /ws up to startShellSession: isAuthenticated, upgrader.Upgrade (which
\* refuses a request that is no WebSocket handshake or whose Origin fails
\* CheckOrigin), and the connection id taken from nextID under s.mu.
handleWebSocket(cookie, origin, host, handshakeOk) ==
    /\ mode = "web"
    /\ authSessions' = afterLookup(cookie)
    /\ IF ~isAuthenticated(cookie)
       THEN /\ resp' = Response("/ws", "401 Unauthorized", "Unauthorized", 0)
            /\ UNCHANGED <<nextID, pc>>
       ELSE IF ~(handshakeOk /\ CheckOrigin(origin, host))
       THEN /\ resp' = Response("/ws", "upgrade refused", "", 0)
            /\ UNCHANGED <<nextID, pc>>
       ELSE /\ nextID \in Chats
            /\ nextID <= MaxConns
            /\ mu = NoProc
            /\ resp' = Response("/ws", "101 Switching Protocols", "", 0)
            /\ nextID' = nextID + 1
            /\ pc' = [pc EXCEPT ![Conn(nextID)] = "upgraded"]
    /\ UNCHANGED <<passwordHash, webDisk, issued, setupPc, setupPw,
                   classifyVars, approvalVars, now,
                   mode, allowedUsers, registry, mu, sess, term, nextSess, loc, upd,
                   panicked, exited, ptyCap, flow, daemonVars, outVars>>

\* Time passes.
AuthTick ==
    /\ mode = "web"
    /\ now + TickHours <= MaxAuthNow
    /\ now' = now + TickHours
    /\ UNCHANGED <<authVars, classifyVars, approvalVars, sessVars>>

\* A server started with or without a configured password.
AuthInit ==
    /\ WebInit("off")
    /\ \E p \in {"", "pw1"} :
          /\ passwordHash = (IF p = "" THEN NoHash ELSE bcryptHash(p))
          /\ webDisk = passwordHash
    /\ authSessions = [t \in Tokens |-> NoExpiry]
    /\ issued = 0
    /\ nextID = 1
    /\ setupPc = [k \in 1..MaxSetupPosts |-> "none"]
    /\ setupPw = [k \in 1..MaxSetupPosts |-> ""]
    /\ resp = NoResponse

AuthNext ==
    \/ \E c \in Cookies : handleRoot(c) \/ handleLogout(c)
    \/ \E k \in 1..MaxSetupPosts, m \in Methods, p \in Passwords, q \in Passwords :
          handleSetupPassword(k, m, p, q)
    \/ \E k \in 1..MaxSetupPosts, hashOk \in BOOLEAN, writeOk \in BOOLEAN :
          handleSetupPasswordStore(k, hashOk, writeOk)
    \/ \E m \in Methods, p \in Passwords : handleLogin(m, p)
    \/ \E c \in Cookies, o \in Origins, h \in Hosts, ok \in BOOLEAN :
          handleWebSocket(c, o, h, ok)
    \/ AuthTick
    \/ \E c \in Chats, ok \in BOOLEAN : startShellSession(c, ok)

(***************************************************************************)
(* Chat sink: splitting and sending one message (TelegramSink)             *)
(***************************************************************************)

\* maxLen of SendOutput, the transport limit (4000 in the source), scaled so
\* that texts around it can be enumerated.
SinkMaxLen == 48

\* The slack sendHTML adds to the tag overhead (100 in the source), scaled.
TagSlack == 1

\* Longest unescaped tail of the explored texts.
MaxRawLen == 6

\* How far below the chunk size the filler of the explored texts ends.
FillGap == 4

\* How far splitAtSafeBoundary scans back from a hard cut.
ScanBack == 10

\* Characters the explored tails are built from.
RawChars == {"a", "&", " ", "\n"}

preTag == <<"p", "r", "e">>
blockquoteTag == <<"b", "l", "o", "c", "k", "q", "u", "o", "t", "e">>
expandableTag == blockquoteTag \o <<" ", "e", "x", "p", "a", "n", "d", "a", "b", "l", "e">>

\* The openTag values SendOutput passes to sendHTML.
OpenTags == {preTag, blockquoteTag, expandableTag}

\* "<" + tag + ">" and "</" + tag + ">".
OpenOf(tag) == <<"<">> \o tag \o <<">">>
CloseOf(tag) == <<"<", "/">> \o tag \o <<">">>

\* html.EscapeString on the explored characters: "&" becomes "&amp;".
RECURSIVE EscapeString(_)
EscapeString(s) ==
    IF s = <<>> THEN <<>>
    ELSE (IF Head(s) = "&" THEN <<"&", "a", "m", "p", ";">> ELSE <<Head(s)>>)
             \o EscapeString(Tail(s))

\* strings.TrimSpace.
RECURSIVE TrimSpace(_)
TrimSpace(s) ==
    IF s = <<>> THEN <<>>
    ELSE IF Head(s) \in asciiSpace THEN TrimSpace(Tail(s))
    ELSE IF s[Len(s)] \in asciiSpace THEN TrimSpace(SubSeq(s, 1, Len(s) - 1))
    ELSE s

\* strings.TrimPrefix and strings.TrimSuffix.
TrimPrefix(s, prefix) ==
    IF IsPrefix(prefix, s) THEN SubSeq(s, Len(prefix) + 1, Len(s)) ELSE s
TrimSuffix(s, suffix) ==
    IF Len(suffix) <= Len(s) /\ SubSeq(s, Len(s) - Len(suffix) + 1, Len(s)) = suffix
    THEN SubSeq(s, 1, Len(s) - Len(suffix))
    ELSE s

\* strings.Split(s, sep) for a non-empty sep, scanning from position i; the
\* piece being collected starts at position from.
RECURSIVE SplitFrom(_, _, _, _, _)
SplitFrom(s, sep, i, from, acc) ==
    IF i + Len(sep) - 1 > Len(s)
    THEN Append(acc, SubSeq(s, from, Len(s)))
    ELSE IF SubSeq(s, i, i + Len(sep) - 1) = sep
         THEN SplitFrom(s, sep, i + Len(sep), i + Len(sep),
                        Append(acc, SubSeq(s, from, i - 1)))
         ELSE SplitFrom(s, sep, i + 1, from, acc)

Split(s, sep) == SplitFrom(s, sep, 1, 1, <<>>)

\* The scan-back of splitAtSafeBoundary from the hard cut `end`: position p is
\* s[j] of the source with j = p - 1.  The result is the length of the part.
RECURSIVE scanBack(_, _, _)
scanBack(s, p, end) ==
    IF p < 1 \/ p < end - (ScanBack - 1) THEN end
    ELSE IF s[p] = ";" THEN end
    ELSE IF s[p] = "&" THEN p - 1
    ELSE scanBack(s, p - 1, end)

RECURSIVE splitAtSafeBoundary(_, _)
splitAtSafeBoundary(s, maxLen) ==
    IF Len(s) > maxLen
    THEN LET end == scanBack(s, maxLen, maxLen)
         IN  <<SubSeq(s, 1, end)>> \o splitAtSafeBoundary(SubSeq(s, end + 1, Len(s)), maxLen)
    ELSE IF Len(s) > 0 THEN <<s>> ELSE <<>>

\* The two accumulators of splitFormattedMessage: chunks and the builder current.
flushCurrent(st) ==
    [chunks |-> Append(st.chunks, TrimSpace(st.current)), current |-> <<>>]
writeString(st, sep, s) ==
    [st EXCEPT !.current = IF @ # <<>> THEN @ \o sep \o s ELSE s]

\* The loop over the sub-chunks of a line longer than maxLen.
RECURSIVE forceSplit(_, _, _)
forceSplit(subChunks, j, st) ==
    IF j > Len(subChunks) THEN st
    ELSE forceSplit(subChunks, j + 1,
             IF j = Len(subChunks)
             THEN writeString(st, <<"\n">>, subChunks[j])
             ELSE IF st.current # <<>>
                  THEN flushCurrent(writeString(st, <<"\n">>, subChunks[j]))
                  ELSE [st EXCEPT !.chunks = Append(@, TrimSpace(subChunks[j]))])

\* The loop over the lines of a paragraph longer than maxLen.
RECURSIVE splitLines(_, _, _, _)
splitLines(lines, i, st, maxLen) ==
    IF i > Len(lines) THEN st
    ELSE LET line == lines[i]
             flushed == IF st.current # <<>> /\ Len(st.current) + 1 + Len(line) > maxLen
                        THEN flushCurrent(st)
                        ELSE st
         IN  splitLines(lines, i + 1,
                 IF Len(line) > maxLen
                 THEN forceSplit(splitAtSafeBoundary(line, maxLen), 1, flushed)
                 ELSE writeString(flushed, <<"\n">>, line),
                 maxLen)

\* The loop over the paragraphs.
RECURSIVE splitParagraphs(_, _, _, _)
splitParagraphs(paragraphs, i, st, maxLen) ==
    IF i > Len(paragraphs) THEN st
    ELSE LET para == paragraphs[i]
             flushed == IF st.current # <<>> /\ Len(st.current) + 2 + Len(para) > maxLen
                        THEN flushCurrent(st)
                        ELSE st
         IN  splitParagraphs(paragraphs, i + 1,
                 IF Len(para) > maxLen
                 THEN splitLines(Split(para, <<"\n">>), 1, flushed, maxLen)
                 ELSE writeString(flushed, <<"\n", "\n">>, para),
                 maxLen)

splitFormattedMessage(formatted, maxLen) ==
    IF Len(formatted) <= maxLen THEN <<formatted>>
    ELSE LET st == splitParagraphs(Split(formatted, <<"\n", "\n">>), 1,
                                   [chunks |-> <<>>, current |-> <<>>], maxLen)
         IN  IF st.current # <<>> THEN flushCurrent(st).chunks ELSE st.chunks

\* A tag overhead that counts the opening tag only (mutant).
tagOverheadOpenOnly(openTag) == 2 + Len(openTag) + TagSlack

\* tagOverhead of sendHTML: both tags with their brackets, and the slack.
tagOverhead(openTag) == 2 + Len(openTag) + 3 + Len(Fields(openTag)[1]) + TagSlack

\* rawMaxLen of sendHTML: maxLen less the tag overhead.
rawMaxLen(openTag, maxLen) == maxLen - tagOverhead(openTag)

\* The text sendHTML splits: formatted without its outer tag.
innerOf(formatted, openTag) ==
    IF Fields(openTag)[1] = preTag
    THEN TrimSuffix(TrimPrefix(formatted, OpenOf(preTag)), CloseOf(preTag))
    ELSE TrimSuffix(TrimPrefix(TrimPrefix(formatted, OpenOf(expandableTag)),
                               OpenOf(blockquoteTag)),
                    CloseOf(blockquoteTag))

\* The chunks sendHTML gets from the splitter.
htmlChunks(formatted, openTag, maxLen) ==
    IF Fields(openTag)[1] = preTag
    THEN splitAtSafeBoundary(innerOf(formatted, openTag), rawMaxLen(openTag, maxLen))
    ELSE splitFormattedMessage(innerOf(formatted, openTag), rawMaxLen(openTag, maxLen))

\* The messages sendHTML hands to bot.Send for these chunks.
RECURSIVE wrapChunks(_, _)
wrapChunks(chunks, openTag) ==
    IF chunks = <<>> THEN <<>>
    ELSE (IF TrimSpace(Head(chunks)) = <<>> THEN <<>>
          ELSE <<OpenOf(openTag) \o TrimSpace(Head(chunks)) \o CloseOf(Fields(openTag)[1])>>)
             \o wrapChunks(Tail(chunks), openTag)

\* The slices text[i:end] of sendPlain, from offset i (0-based).
RECURSIVE plainChunks(_, _, _)
plainChunks(text, i, maxLen) ==
    IF i >= Len(text) THEN <<>>
    ELSE <<SubSeq(text, i + 1, IF i + maxLen > Len(text) THEN Len(text) ELSE i + maxLen)>>
             \o plainChunks(text, i + maxLen, maxLen)

\* The messages sendPlain hands to bot.Send for these slices.
RECURSIVE trimChunks(_)
trimChunks(chunks) ==
    IF chunks = <<>> THEN <<>>
    ELSE (IF TrimSpace(Head(chunks)) = <<>> THEN <<>> ELSE <<TrimSpace(Head(chunks))>>)
             \o trimChunks(Tail(chunks))

\* A run of n letters.
RECURSIVE Filler(_)
Filler(n) == IF n <= 0 THEN <<>> ELSE <<"a">> \o Filler(n - 1)

\* The explored texts: a filler that ends FillGap below the chunk size `room`,
\* then every tail; SendOutput trims its text first.
SinkTexts(room) ==
    {Filler(room - FillGap) \o t : t \in {r \in SeqsUpTo(RawChars, MaxRawLen) : TrimSpace(r) = r}}

\* A sink that was not asked to send.
NoSend == [pc |-> "off", openTag |-> <<>>, text |-> <<>>, chunks |-> <<>>, sent |-> <<>>]

SinkIdle == chatSink = NoSend

\* SendOutput chose a shape: openTag is <<>> for plain text, and text is what
\* it passes to sendPlain or sendHTML.
SinkInit ==
    \/ \E text \in SinkTexts(SinkMaxLen) :
           chatSink = [NoSend EXCEPT !.pc = "call", !.text = text]
    \/ \E openTag \in OpenTags :
           \E text \in SinkTexts(rawMaxLen(openTag, SinkMaxLen)) :
               chatSink = [NoSend EXCEPT !.pc = "call", !.openTag = openTag,
                              !.text = OpenOf(openTag) \o EscapeString(text)
                                           \o CloseOf(Fields(openTag)[1])]

\* TelegramSink.sendPlain(text, maxLen).
sendPlain ==
    /\ chatSink.pc = "call"
    /\ chatSink.openTag = <<>>
    /\ chatSink' =
           IF Len(chatSink.text) <= SinkMaxLen
           THEN [chatSink EXCEPT !.pc = "sent", !.sent = <<chatSink.text>>]
           ELSE [chatSink EXCEPT !.pc = "sent",
                    !.chunks = plainChunks(chatSink.text, 0, SinkMaxLen),
                    !.sent = trimChunks(plainChunks(chatSink.text, 0, SinkMaxLen))]
    /\ UNCHANGED <<classifyVars, approvalVars, now, authVars, daemonVars, ptyCap, flow,
                   mode, allowedUsers, registry, mu, sess, term, nextSess, pc, loc, upd,
                   panicked, exited, screenReader, sinkWrite, launcher, moreVars>>

\* TelegramSink.sendHTML(formatted, openTag, maxLen).
sendHTML ==
    /\ chatSink.pc = "call"
    /\ chatSink.openTag # <<>>
    /\ chatSink' =
           IF Len(chatSink.text) <= SinkMaxLen
           THEN [chatSink EXCEPT !.pc = "sent", !.sent = <<chatSink.text>>]
           ELSE [chatSink EXCEPT !.pc = "sent",
                    !.chunks = htmlChunks(chatSink.text, chatSink.openTag, SinkMaxLen),
                    !.sent = wrapChunks(htmlChunks(chatSink.text, chatSink.openTag, SinkMaxLen),
                                        chatSink.openTag)]
    /\ UNCHANGED <<classifyVars, approvalVars, now, authVars, daemonVars, ptyCap, flow,
                   mode, allowedUsers, registry, mu, sess, term, nextSess, pc, loc, upd,
                   panicked, exited, screenReader, sinkWrite, launcher, moreVars>>

SinkNext == sendPlain \/ sendHTML

(***************************************************************************)
(* Screen reader: the screen as text and its difference (ScreenReader)     *)
(***************************************************************************)

\* Rows of the emulated terminal.
ScreenRows == 3

\* What a row of the emulator can hold.
RowTexts == {<<>>, <<" ">>, <<"a">>, <<"b">>}

\* strings.TrimRight(s, cutset).
RECURSIVE TrimRight(_, _)
TrimRight(s, cutset) ==
    IF s # <<>> /\ s[Len(s)] \in cutset THEN TrimRight(SubSeq(s, 1, Len(s) - 1), cutset) ELSE s

\* strings.Join(lines, "\n").
RECURSIVE Join(_)
Join(lines) ==
    IF lines = <<>> THEN <<>>
    ELSE IF Len(lines) = 1 THEN lines[1]
    ELSE lines[1] \o <<"\n">> \o Join(Tail(lines))

\* lastNonEmpty of Screen, as a count of rows (0: no row has content).
RECURSIVE lastNonEmpty(_, _)
lastNonEmpty(lines, i) ==
    IF i < 1 THEN 0
    ELSE IF TrimRight(lines[i], {" ", "\t", "\r"}) # <<>> THEN i
    ELSE lastNonEmpty(lines, i - 1)

\* ScreenReader.Screen over the emulator's rows: strings.Split(emu.String(), "\n")
\* gives the rows back.
Screen(rows) ==
    LET lines == Split(Join(rows), <<"\n">>)
        n == lastNonEmpty(lines, Len(lines))
    IN  Join([i \in 1..n |-> TrimRight(lines[i], {" ", "\t", "\r"})])

\* The lines of diffScreens' loop: those of newLines that have no equal line
\* at their index in oldLines.
RECURSIVE diffLines(_, _, _)
diffLines(oldLines, newLines, i) ==
    IF i > Len(newLines) THEN <<>>
    ELSE (IF i > Len(oldLines) \/ newLines[i] # oldLines[i] THEN <<newLines[i]>> ELSE <<>>)
             \o diffLines(oldLines, newLines, i + 1)

\* diffScreens(old, current): `changed` is set exactly when a line is appended.
diffScreens(old, current) ==
    IF old = <<>> THEN current
    ELSE LET oldLines == Split(old, <<"\n">>)
             newLines == Split(current, <<"\n">>)
             changed == \E i \in 1..Len(newLines) :
                            i > Len(oldLines) \/ newLines[i] # oldLines[i]
         IN  IF ~changed THEN <<>>
             ELSE TrimSpace(Join(diffLines(oldLines, newLines, 1)))

\* NewScreenReader: an empty screen, no baseline.
NoReader ==
    [emu |-> [i \in 1..ScreenRows |-> <<>>], lastScreen |-> <<>>, op |-> "new", diff |-> <<>>]

ReaderIdle == screenReader = NoReader


ReaderUnchanged ==
    UNCHANGED <<classifyVars, approvalVars, now, authVars, daemonVars, ptyCap, flow,
                mode, allowedUsers, registry, mu, sess, term, nextSess, pc, loc, upd,
                panicked, exited, chatSink, sinkWrite, launcher, moreVars>>

\* ScreenReader.Write: the emulator interprets the bytes; any screen can result.
ScreenWrite(rows) ==
    /\ rows # screenReader.emu
    /\ screenReader' = [screenReader EXCEPT !.emu = rows, !.op = "Write"]
    /\ ReaderUnchanged

\* ScreenReader.Diff.
Diff ==
    /\ screenReader' =
           LET current == Screen(screenReader.emu)
           IN  IF current = screenReader.lastScreen
               THEN [screenReader EXCEPT !.op = "Diff", !.diff = <<>>]
               ELSE [screenReader EXCEPT !.op = "Diff", !.lastScreen = current,
                        !.diff = diffScreens(screenReader.lastScreen, current)]
    /\ ReaderUnchanged

\* ScreenReader.Reset.
Reset ==
    /\ screenReader' = [screenReader EXCEPT !.op = "Reset", !.lastScreen = <<>>]
    /\ ReaderUnchanged

ReaderNext ==
    \/ \E rows \in [1..ScreenRows -> RowTexts] : ScreenWrite(rows)
    \/ Diff
    \/ Reset

(***************************************************************************)
(* Sink writes under concurrent callers (WebSocketSink, TelegramSink)      *)
(***************************************************************************)

\* Goroutines that call one sink: a connection's read loop, its session's
\* streamer, and the streamer of the session stopped before.
MaxSinkCallers == 3

\* Transport writes followed per run.
MaxSinkWrites == 3

SinkCallers == 1..MaxSinkCallers

\* The methods each sink has: TelegramSink has SendOutput only.
SinkMethods(kind) ==
    IF kind = "socket" THEN {"SendOutput", "SendStatus"} ELSE {"SendOutput"}

\* A sink nobody calls.
NoSinkWrite ==
    [kind |-> "none", mu |-> 0, at |-> [k \in SinkCallers |-> "idle"],
     method |-> [k \in SinkCallers |-> "none"], writes |-> 0]

WriteIdle == sinkWrite = NoSinkWrite


\* A fresh sink of either kind: WebSocketSink{conn, chatID} with its mutex
\* unlocked, or TelegramSink{bot, chatID}.
SinkWriteInit ==
    \E kind \in {"socket", "chat"} : sinkWrite = [NoSinkWrite EXCEPT !.kind = kind]

WriteUnchanged ==
    UNCHANGED <<classifyVars, approvalVars, now, authVars, daemonVars, ptyCap, flow,
                mode, allowedUsers, registry, mu, sess, term, nextSess, pc, loc, upd,
                panicked, exited, chatSink, screenReader, launcher, moreVars>>

\* A goroutine calls a method of the sink.
SinkCall(k, method) ==
    /\ sinkWrite.kind # "none"
    /\ method \in SinkMethods(sinkWrite.kind)
    /\ sinkWrite.at[k] = "idle"
    /\ sinkWrite.writes < MaxSinkWrites
    /\ sinkWrite' = [sinkWrite EXCEPT !.at[k] = "called", !.method[k] = method]
    /\ WriteUnchanged

\* WebSocketSink.SendOutput / SendStatus: w.mu.Lock().
SocketLock(k) ==
    /\ sinkWrite.kind = "socket"
    /\ sinkWrite.at[k] = "called"
    /\ sinkWrite.mu = 0
    /\ sinkWrite' = [sinkWrite EXCEPT !.mu = k, !.at[k] = "locked"]
    /\ WriteUnchanged

\* WebSocketSink: w.conn.WriteJSON(msg) starts writing the frame.
SocketWrite(k) ==
    /\ sinkWrite.kind = "socket"
    /\ sinkWrite.at[k] = "locked"
    /\ sinkWrite' = [sinkWrite EXCEPT !.at[k] = "writing"]
    /\ WriteUnchanged

\* WebSocketSink: WriteJSON returns, and the deferred w.mu.Unlock() runs.
SocketUnlock(k) ==
    /\ sinkWrite.kind = "socket"
    /\ sinkWrite.at[k] = "writing"
    /\ sinkWrite' = [sinkWrite EXCEPT !.mu = IF @ = k THEN 0 ELSE @, !.at[k] = "idle",
                        !.method[k] = "none", !.writes = @ + 1]
    /\ WriteUnchanged

\* TelegramSink.SendOutput reaches t.bot.Send(msg): the request starts.
ChatSend(k) ==
    /\ sinkWrite.kind = "chat"
    /\ sinkWrite.at[k] = "called"
    /\ sinkWrite' = [sinkWrite EXCEPT !.at[k] = "writing"]
    /\ WriteUnchanged

\* TelegramSink: t.bot.Send returns.
ChatSendDone(k) ==
    /\ sinkWrite.kind = "chat"
    /\ sinkWrite.at[k] = "writing"
    /\ sinkWrite' = [sinkWrite EXCEPT !.at[k] = "idle", !.method[k] = "none",
                        !.writes = @ + 1]
    /\ WriteUnchanged

WriteNext ==
    \E k \in SinkCallers :
        \/ \E method \in {"SendOutput", "SendStatus"} : SinkCall(k, method)
        \/ SocketLock(k)
        \/ SocketWrite(k)
        \/ SocketUnlock(k)
        \/ ChatSend(k)
        \/ ChatSendDone(k)

(***************************************************************************)
(* Daemon mode, the parent: `--daemon` (daemonize)                         *)
(***************************************************************************)

\* `--daemon` invocations in one run.
MaxParents == 2

Parents == 1..MaxParents

\* The PID file's content when there is no file.
NoPid == 0

\* No `--daemon` was run.
NoLauncher ==
    [file |-> NoPid, alive |-> {}, nextPid |-> 1,
     at |-> [i \in Parents |-> "off"], pid |-> [i \in Parents |-> NoPid],
     child |-> [i \in Parents |-> NoPid], code |-> [i \in Parents |-> -1]]

LauncherIdle == launcher = NoLauncher

\* The configuration exists (setup was completed), no daemon runs, and each
\* invocation is at the top of daemonize.
LauncherInit ==
    launcher = [NoLauncher EXCEPT !.at = [i \in Parents |-> "read"]]

LauncherUnchanged ==
    UNCHANGED <<classifyVars, approvalVars, now, authVars, daemonVars, ptyCap, flow,
                mode, allowedUsers, registry, mu, sess, term, nextSess, pc, loc, upd,
                panicked, exited, chatSink, screenReader, sinkWrite, moreVars>>

\* isProcessAlive(pid): syscall.Kill(pid, 0) == nil.
isProcessAlive(pid) == pid \in launcher.alive

\* `if pid, err := readPIDFile(); err == nil`: without a file the check is skipped.
readPIDFile(i) ==
    /\ launcher.at[i] = "read"
    /\ launcher' = [launcher EXCEPT !.pid[i] = launcher.file,
                       !.at[i] = IF launcher.file = NoPid THEN "stat" ELSE "alive"]
    /\ LauncherUnchanged

\* `if isProcessAlive(pid) { ...; os.Exit(1) }`, else the file is there to be removed.
daemonizeAlive(i) ==
    /\ launcher.at[i] = "alive"
    /\ launcher' =
           IF isProcessAlive(launcher.pid[i])
           THEN [launcher EXCEPT !.at[i] = "exit", !.code[i] = 1]
           ELSE [launcher EXCEPT !.at[i] = "remove"]
    /\ LauncherUnchanged

\* removePIDFile(): os.Remove of the path, whatever the file holds by now.
removePIDFile(i) ==
    /\ launcher.at[i] = "remove"
    /\ launcher' = [launcher EXCEPT !.file = NoPid, !.at[i] = "stat"]
    /\ LauncherUnchanged

\* os.Stat(configPath) and os.OpenFile(logPath): either failure exits with 1.
daemonizeOpen(i, ok) ==
    /\ launcher.at[i] = "stat"
    /\ launcher' =
           IF ok
           THEN [launcher EXCEPT !.at[i] = "start"]
           ELSE [launcher EXCEPT !.at[i] = "exit", !.code[i] = 1]
    /\ LauncherUnchanged

\* cmd.Start(): the child runs from here on, or the parent exits with 1.
daemonizeStart(i, ok) ==
    /\ launcher.at[i] = "start"
    /\ launcher' =
           IF ok
           THEN [launcher EXCEPT !.alive = @ \cup {launcher.nextPid},
                    !.child[i] = launcher.nextPid, !.nextPid = @ + 1, !.at[i] = "write"]
           ELSE [launcher EXCEPT !.at[i] = "exit", !.code[i] = 1]
    /\ LauncherUnchanged

\* writePIDFile(cmd.Process.Pid), a failure is only warned about; os.Exit(0).
writePIDFile(i, ok) ==
    /\ launcher.at[i] = "write"
    /\ launcher' = [launcher EXCEPT !.file = IF ok THEN launcher.child[i] ELSE @,
                       !.at[i] = "exit", !.code[i] = 0]
    /\ LauncherUnchanged

\* A daemon child ends: through its deferred removePIDFile or its cleanup hook
\* (clean), or killed outright, which leaves the file behind.
DaemonChildEnds(pid, clean) ==
    /\ pid \in launcher.alive
    /\ launcher' = [launcher EXCEPT !.alive = @ \ {pid},
                       !.file = IF clean THEN NoPid ELSE @]
    /\ LauncherUnchanged

LauncherNext ==
    \/ \E i \in Parents :
           \/ readPIDFile(i)
           \/ daemonizeAlive(i)
           \/ removePIDFile(i)
           \/ \E ok \in BOOLEAN : daemonizeOpen(i, ok)
           \/ \E ok \in BOOLEAN : daemonizeStart(i, ok)
           \/ \E ok \in BOOLEAN : writePIDFile(i, ok)
    \/ \E pid \in 1..MaxParents, clean \in BOOLEAN : DaemonChildEnds(pid, clean)

(***************************************************************************)
(* cleanTUIChrome and findNewContent (bot bridge).  A string is a sequence *)
(* of runes; a rune outside ASCII is written by its code point.            *)
(***************************************************************************)

UpperLetters == {"A","B","C","D","E","F","G","H","I","J","K","L","M",
                 "N","O","P","Q","R","S","T","U","V","W","X","Y","Z"}
LowerLetters == {"a","b","c","d","e","f","g","h","i","j","k","l","m",
                 "n","o","p","q","r","s","t","u","v","w","x","y","z"}

\* strings.ToLower on one rune.
lowerRune(r) ==
    CASE r = "A" -> "a" [] r = "B" -> "b" [] r = "C" -> "c" [] r = "D" -> "d"
      [] r = "E" -> "e" [] r = "F" -> "f" [] r = "G" -> "g" [] r = "H" -> "h"
      [] r = "I" -> "i" [] r = "J" -> "j" [] r = "K" -> "k" [] r = "L" -> "l"
      [] r = "M" -> "m" [] r = "N" -> "n" [] r = "O" -> "o" [] r = "P" -> "p"
      [] r = "Q" -> "q" [] r = "R" -> "r" [] r = "S" -> "s" [] r = "T" -> "t"
      [] r = "U" -> "u" [] r = "V" -> "v" [] r = "W" -> "w" [] r = "X" -> "x"
      [] r = "Y" -> "y" [] r = "Z" -> "z" [] OTHER -> r

ToLower(s) == [i \in 1..Len(s) |-> lowerRune(s[i])]

\* strings.Contains and strings.HasPrefix.
Contains(s, sub) ==
    \E i \in 1..(Len(s) - Len(sub) + 1) : SubSeq(s, i, i + Len(sub) - 1) = sub
HasPrefix(s, prefix) == Len(prefix) <= Len(s) /\ SubSeq(s, 1, Len(prefix)) = prefix

\* The box-drawing runes of isOnlySeparators and isMostlySeparators.
SeparatorRunes ==
    {"U+2500", "U+2501", "U+2550", "U+2014", "U+254C", "U+254D", "U+2504", "U+2505",
     "U+2508", "U+2509"}

isOnlySeparators(s) == \A i \in 1..Len(s) : s[i] \in SeparatorRunes \cup {" "}

\* isMostlySeparators: more than 60% of at least 10 non-space runes.
isMostlySeparators(s) ==
    LET totalCount == Cardinality({i \in 1..Len(s) : s[i] # " "})
        sepCount == Cardinality({i \in 1..Len(s) : s[i] \in SeparatorRunes})
    IN  IF totalCount < 10 THEN FALSE ELSE sepCount * 10 > totalCount * 6

\* isStatusBarTitle: one to four words, at most 40 bytes, each word a capital
\* letter followed by letters, '-' or '\''.
isStatusBarTitle(s) ==
    LET words == Fields(s)
    IN  /\ Len(words) >= 1 /\ Len(words) <= 4
        /\ Len(s) <= 40
        /\ \A w \in 1..Len(words) :
              /\ words[w][1] \in UpperLetters
              /\ \A k \in 2..Len(words[w]) :
                    words[w][k] \in UpperLetters \cup LowerLetters \cup {"-", "'"}

\* isDuplicatedText: an even number of words, the second half equal to the first.
isDuplicatedText(s) ==
    LET words == Fields(s)
        half == Len(words) \div 2
    IN  /\ Len(words) >= 2 /\ Len(words) % 2 = 0
        /\ \A i \in 1..half : words[i] = words[half + i]

\* Status lines cleanTUIChrome drops wherever the phrase occurs.
ChromePhrases == {
    <<"?", " ", "f", "o", "r", " ", "s", "h", "o", "r", "t", "c", "u", "t", "s">>,
    <<"C", "h", "r", "o", "m", "e", " ", "e", "x", "t", "e", "n", "s", "i", "o", "n", " ", "n", "o", "t", " ", "d", "e", "t", "e", "c", "t", "e", "d">>,
    <<"c", "h", "r", "o", "m", "e", " ", "t", "o", " ", "i", "n", "s", "t", "a", "l", "l">>,
    <<"c", "l", "a", "u", "d", "e", ".", "a", "i", "/", "c", "h", "r", "o", "m", "e">>,
    <<"c", "t", "r", "l", "+", "g", " ", "t", "o", " ", "e", "d", "i", "t", " ", "i", "n", " ", "V", "S", " ", "C", "o", "d", "e">>,
    <<"M", "C", "P", " ", "s", "e", "r", "v", "e", "r", " ", "n", "e", "e", "d", "s", " ", "a", "u", "t", "h">>,
    <<"/", "p", "l", "u", "g", "i", "n", " ", "m", "a", "r", "k", "e", "t", "p", "l", "a", "c", "e">>,
    <<"/", "p", "l", "u", "g", "i", "n", " ", "i", "n", "s", "t", "a", "l", "l">>}

\* Keyboard hints, matched against the lower-cased line.
HintPhrases == {
    <<"e", "s", "c", " ", "t", "o", " ", "c", "a", "n", "c", "e", "l">>,
    <<"e", "s", "c", " ", "t", "o", " ", "i", "n", "t", "e", "r", "r", "u", "p", "t">>,
    <<"t", "a", "b", " ", "t", "o", " ", "a", "m", "e", "n", "d">>,
    <<"c", "t", "r", "l", "+", "o", " ", "t", "o">>,
    <<"c", "t", "r", "l", "+", "e", " ", "t", "o">>,
    <<"s", "h", "i", "f", "t", "+", "t", "a", "b", " ", "t", "o", " ", "c", "y", "c", "l", "e">>}

\* U+276F (prompt), U+23BF (response bracket), U+23F5 (navigation arrow),
\* U+25CF (response bullet), U+2026 (ellipsis), and the thinking indicators.
ThinkingRunes == {"U+2736", "U+273B", "U+2726", "U+2727", "U+2722", "U+273D", "U+00B7"}

\* The tests of cleanTUIChrome's loop that drop a line; trimmed is
\* strings.TrimSpace(line).
isChromeLine(trimmed) ==
    \/ trimmed # <<>> /\ (isOnlySeparators(trimmed) \/ isMostlySeparators(trimmed))
    \/ HasPrefix(trimmed, <<"U+276F">>)
    \/ HasPrefix(trimmed, <<"U+23BF">>)
    \/ \E ph \in ChromePhrases : Contains(trimmed, ph)
    \/ HasPrefix(trimmed, <<"T", "i", "p", ":">>)
    \/ \E ph \in HintPhrases : Contains(ToLower(trimmed), ph)
    \/ trimmed = <<"C","h","e","c","k","i","n","g"," ","f","o","r"," ",
                   "u","p","d","a","t","e","s">>
    \/ HasPrefix(trimmed, <<"U+23F5">>)
    \/ Contains(trimmed, <<"a","c","c","e","p","t"," ","e","d","i","t","s"," ","o","n">>)
    \/ isDuplicatedText(trimmed)
    \/ /\ HasPrefix(trimmed, <<"U+25CF">>)
       /\ TrimSpace(TrimPrefix(trimmed, <<"U+25CF">>)) = <<>>
    \/ /\ trimmed # <<>>
       /\ \/ trimmed[1] \in ThinkingRunes
          \/ trimmed[1] = "*" /\ Contains(trimmed, <<"U+2026">>)
    \/ isStatusBarTitle(trimmed)

\* What the loop appends for a line it keeps: the line itself, or the text
\* behind a response bullet.
keptLine(line) ==
    LET trimmed == TrimSpace(line)
    IN  IF HasPrefix(trimmed, <<"U+25CF">>)
        THEN TrimSpace(TrimPrefix(trimmed, <<"U+25CF">>))
        ELSE line

RECURSIVE cleanLines(_, _)
cleanLines(lines, i) ==
    IF i > Len(lines) THEN <<>>
    ELSE (IF isChromeLine(TrimSpace(lines[i])) THEN <<>> ELSE <<keptLine(lines[i])>>)
             \o cleanLines(lines, i + 1)

\* strings.ReplaceAll(s, "\n\n\n", "\n\n"): non-overlapping, left to right.
RECURSIVE replaceBlankRuns(_)
replaceBlankRuns(s) ==
    IF Len(s) < 3 THEN s
    ELSE IF SubSeq(s, 1, 3) = <<"\n", "\n", "\n">>
         THEN <<"\n", "\n">> \o replaceBlankRuns(SubSeq(s, 4, Len(s)))
         ELSE <<Head(s)>> \o replaceBlankRuns(Tail(s))

\* `for strings.Contains(result, "\n\n\n") { result = ReplaceAll(...) }`.
RECURSIVE collapseBlankRuns(_)
collapseBlankRuns(s) ==
    IF Contains(s, <<"\n", "\n", "\n">>) THEN collapseBlankRuns(replaceBlankRuns(s)) ELSE s

cleanTUIChrome(output) ==
    collapseBlankRuns(TrimSpace(Join(cleanLines(Split(output, <<"\n">>), 1))))

\* norm of findNewContent.
norm(s) == TrimRight(s, {" ", "\t"})

\* The innermost loop of findNewContent: does the suffix of oldLines that
\* starts at suffixStart stand in newLines at nStart?  (Indices from 1.)
suffixMatchesAt(oldLines, newLines, suffixStart, nStart) ==
    \A j \in 0..(Len(oldLines) - suffixStart) :
        norm(newLines[nStart + j]) = norm(oldLines[suffixStart + j])

\* The two outer loops, from (suffixStart, nStart) on; the result is
\* <<afterIdx>> at the first match and <<>> when the loops run out.
RECURSIVE findSuffix(_, _, _, _)
findSuffix(oldLines, newLines, suffixStart, nStart) ==
    IF suffixStart > Len(oldLines) THEN <<>>
    ELSE IF nStart + (Len(oldLines) - suffixStart + 1) - 1 > Len(newLines)
         THEN findSuffix(oldLines, newLines, suffixStart + 1, 1)
    ELSE IF suffixMatchesAt(oldLines, newLines, suffixStart, nStart)
         THEN <<nStart + (Len(oldLines) - suffixStart + 1)>>
    ELSE findSuffix(oldLines, newLines, suffixStart, nStart + 1)

\* A findNewContent that returns the following lines as they are (mutant).
afterMatchUntrimmed(newLines, afterIdx) ==
    Join(SubSeq(newLines, afterIdx, Len(newLines)))

\* What findNewContent returns for a match that leaves lines behind it.
afterMatch(newLines, afterIdx) ==
    TrimSpace(Join(SubSeq(newLines, afterIdx, Len(newLines))))

findNewContent(old, current) ==
    IF old = <<>> THEN current
    ELSE IF current = old THEN <<>>
    ELSE LET oldLines == Split(old, <<"\n">>)
             newLines == Split(current, <<"\n">>)
             found == findSuffix(oldLines, newLines, 1, 1)
         IN  IF found = <<>> THEN current
             ELSE IF found[1] > Len(newLines) THEN <<>>
             ELSE afterMatch(newLines, found[1])

(***************************************************************************)
(* streamSessionOutput of the bot bridge: the select loop of one session's *)
(* streamer, with its clock in ticks of an abstract unit.                  *)
(***************************************************************************)

\* sendDelay (1.5 s), typingInterval (4 s), maxSendInterval (5 s) and
\* maxIdleTime (30 minutes) of the source, scaled down in their order.
sendDelay == 1
typingInterval == 2
maxSendInterval == 3
maxIdleTime == 4

\* Rows of the streamer's emulated screen (50 in the source).
StreamRows == 2

\* What a row of that screen can hold.
StreamRowTexts == {<<>>, <<"a">>, <<"b">>, <<" ", "a">>, <<"U+276F", "a">>}

StreamScreens == [1..StreamRows -> StreamRowTexts]

NoChatStream ==
    [pc |-> "off", rows |-> <<>>, hasNewData |-> FALSE, sinceOutput |-> 0,
     sinceSend |-> 0, sinceTyping |-> 0, lastCleanedScreen |-> <<>>, sentLines |-> {},
     flushed |-> FALSE, deduped |-> FALSE, delivered |-> <<>>,
     notice |-> ""]

ChatStreamIdle == chatStream = NoChatStream

\* The locals of streamSessionOutput before its loop.
ChatStreamInit ==
    chatStream = [NoChatStream EXCEPT !.pc = "loop",
                                      !.rows = [i \in 1..StreamRows |-> <<>>]]

\* The keys flushNewContent adds to sentLines for a content it sends.
lineKeys(content) ==
    {TrimSpace(Split(content, <<"\n">>)[i]) : i \in 1..Len(Split(content, <<"\n">>))}
        \ {<<>>}

\* The lines of the dedup loop: those with a non-empty key that is not in
\* sentLines.
RECURSIVE unsentLines(_, _, _)
unsentLines(lines, i, sentLines) ==
    IF i > Len(lines) THEN <<>>
    ELSE (IF TrimSpace(lines[i]) # <<>> /\ TrimSpace(lines[i]) \notin sentLines
          THEN <<lines[i]>> ELSE <<>>)
             \o unsentLines(lines, i + 1, sentLines)

\* A dedup that keeps every line (mutant).
dedupKeepsAll(newContent, sentLines) == newContent

\* The line-level dedup of flushNewContent.
dedup(newContent, sentLines) ==
    LET unsent == unsentLines(Split(newContent, <<"\n">>), 1, sentLines)
    IN  IF Len(unsent) > 0 THEN TrimSpace(Join(unsent)) ELSE <<>>

\* flushNewContent on the locals st: the new lastCleanedScreen and sentLines,
\* and what went to session.Sink.SendOutput (<<>>: nothing was sent).
flushNewContent(st) ==
    LET cleaned == cleanTUIChrome(Screen(st.rows))
        found == findNewContent(st.lastCleanedScreen, cleaned)
        redraw == found = cleaned /\ st.lastCleanedScreen # <<>>
        newContent == IF redraw THEN dedup(found, st.sentLines) ELSE found
    IN  IF cleaned = <<>> \/ found = <<>>
        THEN [st EXCEPT !.flushed = TRUE, !.deduped = FALSE, !.delivered = <<>>]
        ELSE [st EXCEPT !.flushed = TRUE,
                        !.deduped = redraw,
                        !.delivered = newContent,
                        !.sentLines = IF newContent # <<>>
                                      THEN @ \cup lineKeys(newContent) ELSE @,
                        !.lastCleanedScreen = cleaned]

\* `if hasNewData { flushNewContent() }`.
flushIfNewData(st) ==
    IF st.hasNewData THEN flushNewContent(st)
    ELSE [st EXCEPT !.flushed = FALSE, !.deduped = FALSE,
                          !.delivered = <<>>]

ChatStreamUnchanged ==
    UNCHANGED <<classifyVars, approvalVars, now, authVars, daemonVars, ptyCap, flow,
                mode, allowedUsers, registry, mu, sess, term, nextSess, pc, loc, upd,
                panicked, exited, chatSink, screenReader, sinkWrite, launcher,
                findCall, streamOut, splitLoop>>

Older(age, cap) == IF age < cap THEN age + 1 ELSE age

\* Half a second passes.  An age stops counting one past the longest
\* duration it is compared with.
ChatStreamElapse ==
    /\ chatStream.pc = "loop"
    /\ chatStream' = [chatStream EXCEPT
                          !.sinceOutput = Older(@, maxIdleTime + 1),
                          !.sinceSend = Older(@, maxSendInterval + 1),
                          !.sinceTyping = Older(@, typingInterval + 1),
                          !.flushed = FALSE, !.deduped = FALSE,
                          !.delivered = <<>>]
    /\ ChatStreamUnchanged

\* `case output, ok := <-session.Terminal.outputChan` with ok: the emulator
\* takes the bytes, which leave the screen as rows.
ChatStreamRecv(rows) ==
    /\ chatStream.pc = "loop"
    /\ chatStream' = [chatStream EXCEPT !.rows = rows, !.hasNewData = TRUE,
                                        !.sinceOutput = 0,
                                        !.flushed = FALSE,
                                        !.deduped = FALSE, !.delivered = <<>>]
    /\ ChatStreamUnchanged

\* A streamer that sends whenever the output has been silent (mutant).
settledWithoutData(st) == st.sinceOutput > sendDelay

settled(st) == st.hasNewData /\ st.sinceOutput > sendDelay

forceSend(st) == st.hasNewData /\ st.sinceSend > maxSendInterval

\* `case <-ticker.C`: the typing indicator, the send when settled or forced,
\* the idle timeout.
ChatStreamTick ==
    /\ chatStream.pc = "loop"
    /\ LET st == chatStream
           typed == [st EXCEPT !.sinceTyping =
                         IF st.hasNewData /\ st.sinceTyping > typingInterval THEN 0 ELSE @]
           sent == IF settled(st) \/ forceSend(st)
                   THEN [flushNewContent(typed) EXCEPT !.hasNewData = FALSE, !.sinceSend = 0]
                   ELSE [typed EXCEPT !.flushed = FALSE, !.deduped = FALSE,
                          !.delivered = <<>>]
       IN  chatStream' =
               IF st.sinceOutput > maxIdleTime
               THEN [sent EXCEPT !.pc = "returned",
                                 !.notice = "session timed out (30min idle)"]
               ELSE sent
    /\ ChatStreamUnchanged

\* `case <-session.done`: flush what is pending, return.
ChatStreamStopped ==
    /\ chatStream.pc = "loop"
    /\ chatStream' = [flushIfNewData(chatStream) EXCEPT !.pc = "returned"]
    /\ ChatStreamUnchanged

\* The receive with !ok (the reader closed outputChan): flush what is
\* pending, tell the user, return.
ChatStreamExited ==
    /\ chatStream.pc = "loop"
    /\ chatStream' = [flushIfNewData(chatStream) EXCEPT
                          !.pc = "returned",
                          !.notice = "session ended (program exited)"]
    /\ ChatStreamUnchanged

ChatStreamNext ==
    \/ ChatStreamElapse
    \/ \E rows \in StreamScreens : ChatStreamRecv(rows)
    \/ ChatStreamTick
    \/ ChatStreamStopped
    \/ ChatStreamExited

(***************************************************************************)
(* One call of findNewContent                                              *)
(***************************************************************************)

\* Lines of the old and of the current screen text.
MaxOldLines == 2
MaxNewLines == 3

\* What a line of either text can be.
FindLineTexts == {<<>>, <<"a">>, <<"b">>, <<" ", "a">>, <<"a", " ">>, <<"a", "\r">>}

\* Texts of one to n lines.
FindTexts(n) == UNION {{Join(ls) : ls \in [1..k -> FindLineTexts]} : k \in 1..n}

NoFindCall == [pc |-> "off", old |-> <<>>, current |-> <<>>, out |-> <<>>]

FindIdle == findCall = NoFindCall

FindInit ==
    \E old \in FindTexts(MaxOldLines), current \in FindTexts(MaxNewLines) :
        findCall = [NoFindCall EXCEPT !.pc = "call", !.old = old, !.current = current]

FindUnchanged ==
    UNCHANGED <<classifyVars, approvalVars, now, authVars, daemonVars, ptyCap, flow,
                mode, allowedUsers, registry, mu, sess, term, nextSess, pc, loc, upd,
                panicked, exited, chatSink, screenReader, sinkWrite, launcher,
                chatStream, streamOut, splitLoop>>

findNewContentCall ==
    /\ findCall.pc = "call"
    /\ findCall' = [findCall EXCEPT !.pc = "returned",
                                    !.out = findNewContent(findCall.old, findCall.current)]
    /\ FindUnchanged

FindNext == findNewContentCall

(***************************************************************************)
(* One call of splitAtSafeBoundary, an iteration of its loop at a time     *)
(***************************************************************************)

\* Longest input, largest maxLen, and the parts followed per call.
MaxSplitLen == 6
MaxSplitMax == 4
MaxSplitParts == 7

SplitChars == {"a", "&", ";"}

NoSplitLoop == [pc |-> "off", s |-> <<>>, maxLen |-> 0, parts |-> <<>>]

SplitIdle == splitLoop = NoSplitLoop

SplitInit ==
    \E s \in SeqsUpTo(SplitChars, MaxSplitLen), maxLen \in 1..MaxSplitMax :
        splitLoop = [NoSplitLoop EXCEPT !.pc = "loop", !.s = s, !.maxLen = maxLen]

SplitUnchanged ==
    UNCHANGED <<classifyVars, approvalVars, now, authVars, daemonVars, ptyCap, flow,
                mode, allowedUsers, registry, mu, sess, term, nextSess, pc, loc, upd,
                panicked, exited, chatSink, screenReader, sinkWrite, launcher,
                chatStream, findCall, streamOut>>

\* One iteration of `for len(s) > maxLen`: the scan-back, the append, the
\* cut.
splitIteration ==
    /\ splitLoop.pc = "loop"
    /\ Len(splitLoop.s) > splitLoop.maxLen
    /\ Len(splitLoop.parts) < MaxSplitParts
    /\ LET end == scanBack(splitLoop.s, splitLoop.maxLen, splitLoop.maxLen)
       IN  splitLoop' = [splitLoop EXCEPT
                             !.parts = Append(@, SubSeq(splitLoop.s, 1, end)),
                             !.s = SubSeq(@, end + 1, Len(@))]
    /\ SplitUnchanged

\* The statements after the loop.
splitReturn ==
    /\ splitLoop.pc = "loop"
    /\ Len(splitLoop.s) <= splitLoop.maxLen
    /\ splitLoop' = [splitLoop EXCEPT
                         !.parts = IF Len(splitLoop.s) > 0 THEN Append(@, splitLoop.s) ELSE @,
                         !.pc = "returned"]
    /\ SplitUnchanged

SplitNext == splitIteration \/ splitReturn

(***************************************************************************)
(* Terminal.StreamOutput: the select loop of a one-shot, with its clock.   *)
(* Durations are in units of 500 ms.                                       *)
(***************************************************************************)

\* silenceThreshold (1.5 s), finalSilenceThreshold (3 s), maxWaitTime (30 s).
silenceThreshold == 3
finalSilenceThreshold == 6
maxWaitTime == 60

\* What the one row of the followed screen can hold.
OutRowTexts == {<<"a">>, <<"b">>}

NoStreamOut ==
    [pc |-> "off", chan |-> "open", emu |-> <<>>, lastScreen |-> <<>>,
     hasNewData |-> FALSE, sinceOutput |-> 0, sinceStart |-> 0, sent |-> <<>>]

StreamOutIdle == streamOut = NoStreamOut

\* StreamOutput is entered; the reader may have closed outputChan already.
StreamOutInit ==
    \E chan \in {"open", "closed"} :
        streamOut = [NoStreamOut EXCEPT !.pc = "loop", !.chan = chan, !.emu = <<<<>>>>]

StreamOutUnchanged ==
    UNCHANGED <<classifyVars, approvalVars, now, authVars, daemonVars, ptyCap, flow,
                mode, allowedUsers, registry, mu, sess, term, nextSess, pc, loc, upd,
                panicked, exited, chatSink, screenReader, sinkWrite, launcher,
                chatStream, findCall, splitLoop>>

\* Half a second passes.
StreamOutElapse ==
    /\ streamOut.pc = "loop"
    /\ \/ streamOut.sinceOutput <= finalSilenceThreshold
       \/ streamOut.sinceStart <= maxWaitTime
    /\ streamOut' = [streamOut EXCEPT !.sinceOutput = Older(@, finalSilenceThreshold + 1),
                                      !.sinceStart = Older(@, maxWaitTime + 1)]
    /\ StreamOutUnchanged

\* The reader closes outputChan (the child is gone, or Close was called).
StreamOutChanCloses ==
    /\ streamOut.pc = "loop"
    /\ streamOut.chan = "open"
    /\ streamOut' = [streamOut EXCEPT !.chan = "closed"]
    /\ StreamOutUnchanged

\* `case output := <-t.outputChan`: a chunk the reader pushed, which leaves
\* the screen as rows; or, on a closed channel, the zero value at once (ok is
\* not looked at), which leaves the screen as it is.
StreamOutRecv(rows) ==
    /\ streamOut.pc = "loop"
    /\ streamOut.chan = "closed" => rows = streamOut.emu
    /\ streamOut' = [streamOut EXCEPT !.emu = rows, !.hasNewData = TRUE, !.sinceOutput = 0]
    /\ StreamOutUnchanged

\* screen.Diff() on the screen text `current`, followed by
\* `if diff != "" { t.sink.SendOutput(diff) }`.
sendDiffOf(st, current) ==
    LET diff == IF current = st.lastScreen THEN <<>>
                ELSE diffScreens(st.lastScreen, current)
    IN  [st EXCEPT !.lastScreen = current,
                   !.sent = IF diff # <<>> THEN diff ELSE @]

\* The same with the screen text read once from the emulator.
sendDiff(st) ==
    CHOOSE r \in {sendDiffOf(st, current) : current \in {Screen(st.emu)}} : TRUE

\* A loop that has no total-time cap (mutant).
capNeverReached(st) == FALSE

capReached(st) == st.sinceStart > maxWaitTime

\* `case <-ticker.C`: the send when the output has settled, the return at
\* the cap, the return after the final silence.
StreamOutTick ==
    /\ streamOut.pc = "loop"
    /\ LET st == streamOut
           settledOut == IF st.hasNewData /\ st.sinceOutput > silenceThreshold
                         THEN [sendDiff(st) EXCEPT !.hasNewData = FALSE]
                         ELSE st
       IN  streamOut' =
               IF capReached(st)
               THEN [(IF settledOut.hasNewData THEN sendDiff(settledOut) ELSE settledOut)
                        EXCEPT !.pc = "returned"]
               ELSE IF ~settledOut.hasNewData
                       /\ st.sinceOutput > finalSilenceThreshold
                    THEN [settledOut EXCEPT !.pc = "returned"]
                    ELSE settledOut
    /\ StreamOutUnchanged

StreamOutNext ==
    \/ StreamOutElapse
    \/ StreamOutChanCloses
    \/ \E rows \in {<<t>> : t \in OutRowTexts} \cup {streamOut.emu} : StreamOutRecv(rows)
    \/ StreamOutTick

\* Time passes, and a select whose ticker case is ready takes it at some
\* round (Go's select picks among the ready cases at random).
StreamOutFair == WF_vars(StreamOutElapse) /\ WF_vars(StreamOutTick)

MoreIdle == ChatStreamIdle /\ FindIdle /\ StreamOutIdle /\ SplitIdle

OutIdle == SinkIdle /\ ReaderIdle /\ WriteIdle /\ LauncherIdle /\ MoreIdle

(***************************************************************************)
(* Claims                                                                  *)
(***************************************************************************)

\* The interactive-command set as the specification lists it.
InteractiveCommandSet == {
    <<"c","l","a","u","d","e">>,
    <<"c","l","a","u","d","e","-","c","o","d","e">>,
    <<"a","i","d","e","r">>,
    <<"p","y","t","h","o","n">>,
    <<"p","y","t","h","o","n","3">>,
    <<"i","p","y","t","h","o","n">>,
    <<"n","o","d","e">>,
    <<"d","e","n","o">>,
    <<"b","u","n">>,
    <<"i","r","b">>,
    <<"r","u","b","y">>,
    <<"g","h","c","i">>,
    <<"s","t","a","c","k">>,
    <<"l","u","a">>,
    <<"p","s","q","l">>,
    <<"m","y","s","q","l">>,
    <<"r","e","d","i","s","-","c","l","i">>,
    <<"v","i","m">>,
    <<"n","v","i","m">>,
    <<"e","m","a","c","s">>,
    <<"n","a","n","o">>,
    <<"l","e","s","s">>,
    <<"m","o","r","e">>,
    <<"t","o","p">>,
    <<"h","t","o","p">>,
    <<"b","t","o","p">>,
    <<"w","a","t","c","h">>,
    <<"s","s","h">>,
    <<"t","e","l","n","e","t">>
}

\* Positions i..j of s hold its first whitespace-delimited word.
IsFirstWord(s, i, j) ==
    /\ \A k \in 1..(i - 1) : s[k] \in asciiSpace
    /\ \A k \in i..j : s[k] \notin asciiSpace
    /\ j = Len(s) \/ s[j + 1] \in asciiSpace

Listeners == {BotListener} \cup {Conn(c) : c \in Chats}

\* The texts Listen handles itself, before handleCommand.
SlashCommands == {TxtStart, TxtExit, TxtStop, TxtStatus}

Whitelisted(u) == u \in {allowedUsers[i] : i \in 1..Len(allowedUsers)}

ChatHasActiveSession(c) == registry[c] # 0 /\ sess[registry[c]].Active

\* C1: a message whose sender is not in the whitelist is answered
\* "Unauthorized" and nothing else happens: no session is created, stopped or
\* looked up for a status, no PTY receives input, and no handler is entered.
C1_UnauthorizedRejected ==
    [][\A u \in Users, c \in Chats, t \in BotTexts :
          (BotUpdate(u, c, t) /\ ~Whitelisted(u)) =>
              /\ upd'[BotListener] = Replied([NoFrame EXCEPT !.chat = c], "unauthorized")
              /\ UNCHANGED <<registry, sess, term, nextSess, pc, loc>>]_vars

\* C1 witness: a sender outside the whitelist was turned away in a chat that
\* has an active session.
C1_Witness ==
    /\ mode = "bot"
    /\ upd[BotListener].route = "unauthorized"
    /\ ChatHasActiveSession(upd[BotListener].chat)
    /\ term[registry[upd[BotListener].chat]].input

\* C5 (as the specification states it): whatever the interleaving of Close
\* calls on one terminal, its stop channel t.done is closed exactly once and no
\* close of a closed channel happens.
C5_CloseOnce ==
    /\ \A s \in SessIds : term[s].doneCloses <= 1
    /\ panicked # "close of closed channel: Terminal.done"

\* C6: a Close call that begins after an earlier Close on the same terminal
\* has returned never reaches close(t.done), does not panic, and leaves the
\* terminal as it found it: stop channel closed, child reaped, PTY handle closed.
C6_CloseIdempotent ==
    /\ [](\A p \in Procs : loc[p].late =>
              /\ pc[p] = "close.kill"
              /\ term[loc[p].s].tdone = "closed"
              /\ term[loc[p].s].child = "exited"
              /\ term[loc[p].s].ptmx = "closed")
    /\ [][\A p \in Procs :
              (pc[p] = "close.select" /\ term[loc[p].s].ptmx = "closed"
                   /\ pc'[p] # "close.select") =>
                  /\ pc'[p] = "close.kill"
                  /\ loc'[p].late
                  /\ UNCHANGED <<term, panicked>>]_vars
    /\ [][\A p \in Procs :
              (loc[p].late /\ pc'[p] # pc[p]) => UNCHANGED <<term, panicked>>]_vars

\* C6 witness: the bot's stopSession is inside a Close that began after the
\* streamer's Close on the same terminal had returned.
C6_Witness ==
    /\ pc[BotListener] = "close.kill"
    /\ loc[BotListener].late
    /\ term[loc[BotListener].s].doneCloses = 1
    /\ panicked = "no"

\* Workers past the point where their stop request has closed Session.done.
StopRequested(p, s) ==
    \/ pc[p] = "finished" /\ loc[p].s = s
    \/ /\ pc[p] \in {"close.select", "close.do", "close.kill"}
       /\ loc[p].op \in {"stop", "sig", "wstop"}
       /\ loc[p].s = s

\* C7: Session.done is closed at most once, whatever the number and the
\* interleaving of stop requests (safeCloseDone in the bot bridge and the test,
\* the direct close in the web stopSession), and once a stop request is past
\* its close the channel is closed.
C7_DoneClosedOnce ==
    /\ panicked # "close of closed channel: Session.done"
    /\ \A s \in SessIds :
          /\ sess[s].doneCloses <= 1
          /\ (sess[s].doneCloses = 1) = (sess[s].done = "closed")
          /\ \A p \in Procs : StopRequested(p, s) => sess[s].done = "closed"

\* C7 witness: every concurrent caller of safeCloseDone has returned.
C7_Witness ==
    /\ mode = "test"
    /\ \A k \in 1..TestCallers : pc[TestCaller(k)] = "finished"
    /\ sess[1].done = "closed"
    /\ sess[1].doneClosed

\* C8: when handleCommand finds the chat's session active, the message goes to
\* that session's PTY (both writes of SendCommand, on that terminal and no
\* other); a worker about to start a session or a one-shot never belongs to a
\* chat with an active session; and the bot passes every non-slash message of a
\* whitelisted sender to handleCommand with the chat's session.
C8_ForwardedToActiveSession ==
    /\ [](\A p \in Listeners :
              pc[p] \in {"start.new", "oneshot.run"} => ~ChatHasActiveSession(loc[p].chat))
    /\ [][\A p \in Listeners :
              (pc[p] = "hc.check" /\ pc'[p] # "hc.check"
                   /\ ChatHasActiveSession(loc[p].chat)) =>
                  /\ pc'[p] = "send.text"
                  /\ loc'[p].s = registry[loc[p].chat]
                  /\ loc'[p].op = "forward"
                  /\ UNCHANGED <<registry, sess, term, nextSess>>]_vars
    /\ [][\A p \in Listeners :
              (pc[p] \in {"send.text", "send.cr"} /\ pc'[p] # pc[p]) =>
                  /\ term[loc[p].s].ptmx = "open" => term'[loc[p].s].input
                  /\ \A s \in SessIds \ {loc[p].s} : term'[s] = term[s]
                  /\ UNCHANGED <<registry, sess, nextSess>>]_vars
    /\ [][\A u \in Users, c \in Chats, t \in BotTexts \ SlashCommands :
              (BotUpdate(u, c, t) /\ Whitelisted(u) /\ ChatHasActiveSession(c)) =>
                  /\ pc'[BotListener] = "hc.check"
                  /\ loc'[BotListener].s = registry[c]
                  /\ loc'[BotListener].chat = c]_vars

\* C8 witness: the word of an interactive command, sent to a chat with an
\* active session, has been written to that session's PTY.
C8_Witness ==
    \E p \in Listeners :
        /\ pc[p] = "send.cr"
        /\ loc[p].op = "forward"
        /\ upd[p].text = TxtTop
        /\ loc[p].s = registry[loc[p].chat]
        /\ term[loc[p].s].input


\* A cookie that names a token of the server-side map that has not expired.
ValidSessionCookie(cookie) ==
    /\ cookie \in Tokens
    /\ authSessions[cookie] # NoExpiry
    /\ now <= authSessions[cookie]

\* An Origin header that is empty or http://Host or https://Host, Host being
\* the request's Host header.
OriginMatchesHost(origin, host) ==
    \/ origin = <<>>
    \/ Len(origin) = 2 /\ origin[1] \in {"http://", "https://"} /\ origin[2] = host

\* C2: GET /ws is upgraded only when the cookie names an unexpired token and
\* the Origin is empty or http(s):// followed by the request's Host; without
\* a valid cookie the answer is 401; a request that is not upgraded creates no
\* connection and no session; a connection comes into being only by such an
\* upgrade; and a shell session exists only for an upgraded connection.
C2_UpgradeOnlyWhenAdmitted ==
    /\ [][resp'.path = "/ws" =>
          \A c \in Cookies, o \in Origins, h \in Hosts, ok \in BOOLEAN :
              \/ /\ resp'.status = "101 Switching Protocols" =>
                        ValidSessionCookie(c) /\ OriginMatchesHost(o, h)
                 /\ ~ValidSessionCookie(c) => resp'.status = "401 Unauthorized"
              \/ ~handleWebSocket(c, o, h, ok)]_vars
    /\ [][(resp'.path = "/ws" /\ resp'.status # "101 Switching Protocols") =>
              \/ UNCHANGED <<pc, registry, sess, term, nextSess, nextID>>
              \/ \A c \in Cookies, o \in Origins, h \in Hosts, ok \in BOOLEAN :
                     ~handleWebSocket(c, o, h, ok)]_vars
    /\ [][\A c \in Chats :
              (pc[Conn(c)] = "off" /\ pc'[Conn(c)] # "off") =>
                  \E k \in Cookies, o \in Origins, h \in Hosts :
                      /\ handleWebSocket(k, o, h, TRUE)
                      /\ ValidSessionCookie(k)
                      /\ OriginMatchesHost(o, h)]_vars
    /\ [](\A c \in Chats : registry[c] # 0 => pc[Conn(c)] # "off")

\* C2 witness: a request was upgraded after the clock had advanced, and the
\* connection has its shell session.
C2_Witness ==
    /\ resp.status = "101 Switching Protocols"
    /\ now > 0
    /\ \E c \in Chats : pc[Conn(c)] = "idle" /\ registry[c] # 0 /\ sess[registry[c]].Active

\* A token the server has issued and whose entry is gone from the map.
Revoked(t) == t <= issued /\ authSessions[t] = NoExpiry

\* The answers an unauthenticated request gets on GET / and on /ws.
TreatedAsUnauthenticated(t) ==
    /\ \/ resp'.body = "login page"
       \/ ~handleRoot(t)
    /\ \A o \in Origins, h \in Hosts, ok \in BOOLEAN :
          \/ resp'.status = "401 Unauthorized"
          \/ ~handleWebSocket(t, o, h, ok)

\* C11: /logout carrying token t removes t from the session map; a removed
\* token never comes back (a later login issues a different token); and every
\* later GET / or /ws presenting t gets the login page or 401.
C11_LogoutRevokes ==
    /\ [][\A t \in Tokens : handleLogout(t) => authSessions'[t] = NoExpiry]_vars
    /\ [][\A t \in Tokens : Revoked(t) => authSessions'[t] = NoExpiry]_vars
    /\ [][\A t \in Tokens : Revoked(t) => TreatedAsUnauthenticated(t)]_vars

\* C11 witness: before any token could expire, token 1 is gone from the map,
\* a later login has issued token 2, and the last request was refused with 401.
C11_Witness ==
    /\ now = 0
    /\ Revoked(1)
    /\ issued = 2
    /\ authSessions[2] # NoExpiry
    /\ resp = Response("/ws", "401 Unauthorized", "Unauthorized", 0)

\* A token whose entry is in the map and whose expiry has passed.
Expired(t) == authSessions[t] # NoExpiry /\ now > authSessions[t]

\* C12: a token's expiry is 24 hours after it was issued; a lookup (GET / or
\* /ws) presenting an expired token fails and removes its entry; and a lookup
\* never removes or changes an unexpired entry.
C12_TokenExpiry ==
    /\ [][\A t \in Tokens :
              (authSessions[t] = NoExpiry /\ authSessions'[t] # NoExpiry) =>
                  authSessions'[t] = now + 24]_vars
    /\ [][\A t \in Tokens : Expired(t) =>
              /\ \/ resp'.body = "login page" /\ authSessions'[t] = NoExpiry
                 \/ ~handleRoot(t)
              /\ \A o \in Origins, h \in Hosts, ok \in BOOLEAN :
                    \/ resp'.status = "401 Unauthorized" /\ authSessions'[t] = NoExpiry
                    \/ ~handleWebSocket(t, o, h, ok)]_vars
    /\ [][(resp'.path \in {"/", "/ws"} /\ UNCHANGED <<issued, now>>) =>
              \A t \in Tokens :
                  (authSessions[t] # NoExpiry /\ now <= authSessions[t]) =>
                      authSessions'[t] = authSessions[t]]_vars

\* C12 witness: token 1, issued at hour 0, was presented after its expiry and
\* its entry removed by the lookup, while token 2, issued later, is still in
\* the map.
C12_Witness ==
    /\ now > 24
    /\ Revoked(1)
    /\ authSessions[2] = 48
    /\ resp.path = "/ws"
    /\ resp.status = "401 Unauthorized"

\* C13: GET / serves the setup page exactly when no hash is configured,
\* otherwise the login page exactly when the request carries no valid
\* session, otherwise the terminal page.
C13_RootPage ==
    [][resp'.path = "/" =>
          \A c \in Cookies :
              \/ resp'.body = (IF passwordHash = NoHash THEN "setup page"
                               ELSE IF ~ValidSessionCookie(c) THEN "login page"
                               ELSE "terminal page")
              \/ ~handleRoot(c)]_vars

\* C13 witness: the terminal page was served to a token on its last valid hour.
C13_Witness ==
    /\ resp = Response("/", "200 OK", "terminal page", 0)
    /\ now = 24
    /\ authSessions[1] = 24

C15_NoCloseUnderLock ==
    \A p \in Procs : pc[p] \in {"close.select", "close.do", "close.kill"} => mu # p

\* C16 (as the specification states it): when CleanupAllSessions has
\* returned, the registry is empty and every session it found active is
\* inactive, with its stop signal closed and its PTY closed.
C16_CloseAllLeavesNothing ==
    pc[SignalHandler] = "sig.exit" =>
        /\ \A c \in Chats : registry[c] = 0
        /\ \A s \in SessIds :
              (sess[s].made /\ ~sess[s].Active /\ sess[s].done = "closed") =>
                  term[s].tdone = "closed"

\* C17 (as the specification states it): a daemon child that exits on a
\* termination signal has removed its PID file.
C17_SignalExitRemovesPidFile ==
    (exited /\ cleanupHook = "removePIDFile") => pidFile = "absent"

\* A step ends the session of client c when it clears its Active flag,
\* closes (or closes again) its stop signal or its Terminal, or deletes c's
\* registry entry.
EndsSessionOf(c) ==
    LET s == registry[c]
    IN  \/ sess[s].Active /\ ~sess'[s].Active
        \/ sess'[s].doneCloses > sess[s].doneCloses
        \/ term'[s].doneCloses > term[s].doneCloses
        \/ term'[s].tdone # term[s].tdone
        \/ registry'[c] = 0

\* Client c2 keeps its registry entry, its session and its Terminal, and the
\* process that holds them is still running: a runtime panic ends the
\* process, and with it every client's session and PTY.
UntouchedClient(c2) ==
    LET s2 == registry[c2]
    IN  /\ registry'[c2] = s2
        /\ sess'[s2] = sess[s2]
        /\ term'[s2] = term[s2]
        /\ panicked' = "no"

\* C19 (as the specification states it): ending one client's session
\* (explicit stop, child exit, idle timeout or disconnect) leaves every other
\* client's registry entry, Active flag, stop signal and PTY unchanged.
C19_OtherSessionsUntouched ==
    [][\A c \in Chats, c2 \in Chats :
          (c2 # c /\ registry[c] # 0 /\ registry[c2] # 0 /\ EndsSessionOf(c)) =>
              UntouchedClient(c2)]_vars

\* C18 (as the specification states it): bytes of one PTY reach its sink in
\* source order.  Until the stop signal fires, every chunk the reader has
\* read is with the streamer, in the queue or in the reader's hands, in the
\* order read; and the concatenation of the output frames sent so far is a
\* prefix of the byte stream read from the PTY.
C18_BytesReachSinkInOrder ==
    /\ flow.tdone = "open" =>
           flow.read = flow.taken \o Concat(flow.outputChan) \o flow.held
    /\ IsPrefix(flow.frames, flow.read)

\* The session of a connection is gone: inactive, out of the registry, its
\* PTY closed and its streamer returned.
SessionGone(c, s) ==
    /\ ~sess[s].Active
    /\ registry[c] = 0
    /\ term[s].ptmx = "closed"
    /\ pc[Streamer(s)] = "exit"

\* C20 (as the specification states it): after a socket client disconnects (the read loop sees an error), that
\* connection's session eventually becomes inactive, is removed from the
\* registry, has its PTY closed, and its streamer worker terminates.
C20_DisconnectCleansUp ==
    \A c \in Chats, s \in SessIds :
        (upd[Conn(c)].route = "disconnected" /\ sess[s].made /\ sess[s].Sink = c)
            ~> SessionGone(c, s)

\* The session is over: inactive, in no registry entry, its PTY closed.
SessionOver(s) ==
    /\ ~sess[s].Active
    /\ \A c \in Chats : registry[c] # s
    /\ term[s].ptmx = "closed"

\* C21 (as the specification states it): when a session's PTY has produced no
\* new bytes for 30 minutes, its streamer informs the user of the timeout and
\* exits, after which the session is inactive, removed from the registry and
\* its PTY closed.
C21_IdleTimeoutEndsSession ==
    \A g \in SessIds, s \in SessIds :
        (/\ pc[Streamer(g)] = "cleanup"
         /\ loc[Streamer(g)].s = s
         /\ upd[Streamer(g)].route = "session timed out (30min idle)")
            ~> (SessionOver(s) /\ pc[Streamer(g)] = "exit")

\* C22 (as the specification states it): when the output channel is closed
\* because the child exited, the streamer informs the user that the session
\* ended and returns, after flushing what was pending, and then the session is
\* deactivated, removed from the registry and its PTY closed.
C22_ChildExitEndsSession ==
    \A g \in SessIds, s \in SessIds :
        (/\ pc[Streamer(g)] = "cleanup"
         /\ loc[Streamer(g)].s = s
         /\ upd[Streamer(g)].route = "session ended (program exited)")
            ~> (SessionOver(s) /\ pc[Streamer(g)] = "exit")

\* An "&" with no ";" after it in the chunk.
UnclosedAmp(chunk) ==
    \E p \in 1..Len(chunk) : chunk[p] = "&" /\ \A q \in (p + 1)..Len(chunk) : chunk[q] # ";"

\* C23 (as the specification states it): for every message the HTML sender
\* splits, the splitter's chunks concatenated give back the text it was asked
\* to split, and no chunk but the last ends inside an entity (an "&" whose
\* ";" lies in the next chunk).
C23_SplitterKeepsText ==
    (chatSink.pc = "sent" /\ chatSink.openTag # <<>> /\ Len(chatSink.text) > SinkMaxLen) =>
        /\ Concat(chatSink.chunks) = innerOf(chatSink.text, chatSink.openTag)
        /\ \A i \in 1..(Len(chatSink.chunks) - 1) : ~UnclosedAmp(chatSink.chunks[i])

\* C24 (as the specification states it): every message the chat sink hands
\* to the transport, each wrapped chunk of a split message included, is at
\* most the transport limit long.
C24_MessagesWithinLimit ==
    \A i \in 1..Len(chatSink.sent) : Len(chatSink.sent[i]) <= SinkMaxLen

\* A split message went out in more than one wrapped chunk.
C24_Witness ==
    /\ chatSink.pc = "sent"
    /\ chatSink.openTag = expandableTag
    /\ Len(chatSink.sent) > 1
    /\ \E i \in 1..Len(chatSink.sent) : Len(chatSink.sent[i]) = SinkMaxLen - TagSlack

\* C25 (as the specification states it): Diff returns the empty string if
\* and only if the screen equals the baseline, which is the screen captured
\* by the previous Diff, or empty before the first Diff and after Reset.
C25_DiffEmptyIffUnchanged ==
    [][Diff => ((screenReader'.diff = <<>>)
                    <=> (Screen(screenReader.emu) = screenReader.lastScreen))]_vars

\* C26 (as the specification states it): writes on one sink are mutually
\* exclusive; whichever the sink, chat or socket, at most one of its callers
\* is inside a transport write at any time.
C26_OneWritePerSink ==
    Cardinality({k \in SinkCallers : sinkWrite.at[k] = "writing"}) <= 1

\* C27 (as the specification states it): a socket frame that is malformed
\* JSON, or whose type is none of those the server knows, is ignored: the
\* connection's read loop goes on, and the registry, the sessions' Active
\* flags and the PTYs are as they were.
C27_BadFrameIgnored ==
    [][\A c \in Chats :
           (cleanup(c, "malformed JSON") \/ \E t \in WebTexts : WebFrame(c, "ping", t))
               => (pc'[Conn(c)] = "idle" /\ UNCHANGED <<registry, sess, term>>)]_vars

\* C28 (as the specification states it): if writing the config fails during
\* the approval handshake, startup is aborted: the sender is not treated as
\* approved, and the bridge never enters normal listening.
C28_FailedSaveAbortsStartup ==
    (apMsg.kind = "approved" /\ ~diskConfig.exists) =>
        (~approved /\ apPc # "listening")

\* The PID file names a live process.
DaemonOnFile == launcher.file # NoPid /\ launcher.file \in launcher.alive

\* C29 (as the specification states it): daemonize refuses when the PID file
\* names a live process: it exits with a non-zero code, spawns no child and
\* leaves the PID file as it is; and no daemon is started while the PID file
\* names a live process.
C29_NoSecondDaemon ==
    /\ [][\A i \in Parents :
              (daemonizeAlive(i) /\ isProcessAlive(launcher.pid[i])) =>
                  /\ launcher'.code[i] = 1
                  /\ launcher'.at[i] = "exit"
                  /\ launcher'.alive = launcher.alive
                  /\ launcher'.file = launcher.file]_vars
    /\ [][\A i \in Parents :
              daemonizeStart(i, TRUE) => ~DaemonOnFile]_vars

\* The worker p is inside executeCommand with the terminal it made.
InOneShot(p) ==
    /\ loc[p].op = "one-shot"
    /\ pc[p] \in {"send.text", "send.cr", "oneshot.stream",
                  "close.select", "close.do", "close.kill"}

\* A terminal that no Session struct was made of: a one-shot's.
OneShotTerminal(g) == term[g].ptmx # "none" /\ ~sess[g].made

\* C30: the terminal of a one-shot is never in the registry; its PTY is open or
\* its child alive only while the handler that made it is still inside
\* executeCommand; no step of a one-shot changes the registry or a session; and
\* when the handler returns with its reply the PTY is closed and the child
\* reaped.
C30_OneShotLeavesNothing ==
    /\ [](\A g \in SessIds : OneShotTerminal(g) =>
              /\ \A c \in Chats : registry[c] # g
              /\ (term[g].ptmx = "open" \/ term[g].child = "running") =>
                     \E p \in Procs : InOneShot(p) /\ loc[p].s = g)
    /\ [][\A p \in Procs :
              ((pc[p] = "oneshot.run" \/ InOneShot(p)) /\ pc'[p] # pc[p]) =>
                  /\ UNCHANGED <<registry, sess>>
                  /\ (upd'[p].route = "one-shot complete") =>
                         /\ pc'[p] = "idle"
                         /\ term'[loc[p].s].ptmx = "closed"
                         /\ term'[loc[p].s].child = "exited"]_vars

\* C30 witness: a one-shot has returned with its reply; its terminal is closed,
\* its child reaped, and the registry is empty as before.
C30_Witness ==
    /\ \E p \in Procs : pc[p] = "idle" /\ upd[p].route = "one-shot complete"
    /\ \E g \in SessIds :
          /\ OneShotTerminal(g)
          /\ term[g].input
          /\ term[g].ptmx = "closed"
          /\ term[g].child = "exited"
    /\ registry = [c \in Chats |-> 0]
    /\ panicked = "no"

\* A step of p that is a write to a PTY: SendCommand's two writes and
\* SendRawInput.
WritesInput(p) == pc[p] \in {"send.text", "send.cr", "send.raw"} /\ pc'[p] # pc[p]

\* C31: no write of a message handler reaches the PTY of a session whose
\* Active flag is false at the time of the write, the flag being cleared by
\* the session's streamer, by stop or by the disconnect cleanup (no signal
\* has been handled).
C31_NoInputAfterInactive ==
    [][\A p \in Procs :
          (/\ WritesInput(p)
           /\ pc[SignalHandler] \in {"wait", "off"}
           /\ sess[loc[p].s].made
           /\ term[loc[p].s].ptmx = "open") =>
              sess[loc[p].s].Active]_vars

\* C32: close(t.outputChan) is called at most once per terminal; the step that
\* closes the channel is a step of the terminal's reader alone (no handler,
\* streamer or Close moves in it), taken at the top of its loop or in its
\* push, when t.done is closed or, at the top, when Read reports EOF; the
\* reader has returned once the channel is closed, and nothing is queued on a
\* closed channel.
C32_OutputChanClosedOnceByReader ==
    /\ [](\A g \in SessIds :
              /\ term[g].chanCloses <= 1
              /\ (term[g].chanCloses = 1) = (term[g].outputChan = "closed")
              /\ term[g].outputChan = "closed" => term[g].reader = "done")
    /\ [][\A g \in SessIds :
              /\ term'[g].outputChan # term[g].outputChan =>
                    /\ term[g].reader \in {"top", "pushing"}
                    /\ term'[g].outputChan = "closed"
                    /\ \/ term[g].tdone = "closed"
                       \/ /\ term[g].reader = "top"
                          /\ term[g].child = "exited"
                          /\ term[g].ptmx = "open"
                    /\ UNCHANGED <<pc, loc, sess, registry>>
              /\ term[g].outputChan = "closed" => term'[g].queued <= term[g].queued]_vars

\* C32 witness: with the queue full and t.done closed, the reader has closed
\* the channel, once, and returned.
C32_Witness ==
    \E g \in SessIds :
        /\ term[g].outputChan = "closed"
        /\ term[g].chanCloses = 1
        /\ term[g].reader = "done"
        /\ term[g].queued = ChanCap
        /\ term[g].tdone = "closed"
        /\ term[g].child = "exited"

\* The ticker case of the chat streamer called flushNewContent.
TickEmits == ChatStreamTick /\ chatStream'.flushed

FullRedraw(st) ==
    LET cleaned == cleanTUIChrome(Screen(st.rows))
        oldLines == Split(st.lastCleanedScreen, <<"\n">>)
        newLines == Split(cleaned, <<"\n">>)
    IN  /\ st.lastCleanedScreen # <<>>
        /\ cleaned # st.lastCleanedScreen
        /\ \A k \in 1..Len(oldLines) : \A at \in 1..Len(newLines) :
               ~ (/\ at + k - 1 <= Len(newLines)
                  /\ \A i \in 1..k :
                         norm(newLines[at + i - 1]) = norm(oldLines[Len(oldLines) - k + i]))

\* C34: every non-empty trimmed line of a content the chat streamer delivers
\* is in sentLines afterwards, and a content delivered after a failed suffix
\* match against a non-empty baseline has no line whose trimmed form was in
\* sentLines before the emit.
C34_DeliveredLinesCached ==
    [][chatStream'.delivered # <<>> =>
          /\ lineKeys(chatStream'.delivered) \subseteq chatStream'.sentLines
          /\ FullRedraw(chatStream) =>
                 lineKeys(chatStream'.delivered) \cap chatStream.sentLines = {}]_vars

\* C34 witness: an emit after a full redraw delivered content while a line of
\* the cleaned screen, sent before, was dropped.
C34_Witness ==
    /\ chatStream.flushed
    /\ chatStream.deduped
    /\ chatStream.delivered # <<>>
    /\ ~ (lineKeys(chatStream.lastCleanedScreen) \subseteq lineKeys(chatStream.delivered))

\* The suffix of oldLines of k lines stands in newLines from line `at` on,
\* lines compared after the runes of cut are taken off their right end.
SuffixOccursAt(cut, oldLines, newLines, k, at) ==
    /\ at + k - 1 <= Len(newLines)
    /\ \A i \in 1..k :
           TrimRight(newLines[at + i - 1], cut) =
               TrimRight(oldLines[Len(oldLines) - k + i], cut)

\* The lengths of the suffixes of oldLines that occur in newLines.
OccurringSuffixes(cut, oldLines, newLines) ==
    {k \in 1..Len(oldLines) :
        \E at \in 1..Len(newLines) : SuffixOccursAt(cut, oldLines, newLines, k, at)}

\* The lines of newLines after the first occurrence of the longest suffix of
\* oldLines that occurs in it.
LinesAfterLongestSuffix(cut, oldLines, newLines) ==
    LET ks == OccurringSuffixes(cut, oldLines, newLines)
        k == CHOOSE x \in ks : \A y \in ks : y <= x
        ats == {at \in 1..Len(newLines) : SuffixOccursAt(cut, oldLines, newLines, k, at)}
        first == CHOOSE x \in ats : \A y \in ats : x <= y
    IN  SubSeq(newLines, first + k, Len(newLines))

\* A suffix of the old text's lines occurs in the current text, which is
\* neither the old text nor compared with an empty one.
SuffixMatched(cut, old, current) ==
    /\ old # <<>>
    /\ current # old
    /\ OccurringSuffixes(cut, Split(old, <<"\n">>), Split(current, <<"\n">>)) # {}

\* What the comparison of findNewContent takes off the right end of a line.
SpaceAndTab == {" ", "\t"}

C37_StreamOutputTerminates ==
    /\ <>(streamOut.pc = "returned")
    /\ [][StreamOutTick =>
              (streamOut'.pc = "returned" <=>
                   \/ streamOut.sinceStart > maxWaitTime
                   \/ streamOut.sinceOutput > finalSilenceThreshold)]_vars
    /\ [][streamOut'.pc # streamOut.pc => StreamOutTick]_vars

\* C37 witness: on a closed channel, whose receive never blocks, the loop
\* returned at the cap while the last receive was less than silenceThreshold
\* old.
C37_Witness ==
    /\ streamOut.pc = "returned"
    /\ streamOut.chan = "closed"
    /\ streamOut.hasNewData
    /\ streamOut.sinceStart > maxWaitTime
    /\ streamOut.sinceOutput <= silenceThreshold

\* C38: every part splitAtSafeBoundary appends is non-empty and every
\* iteration of its loop shortens the remaining text, so the loop ends.
C38_SplitConsumes ==
    /\ [](\A i \in 1..Len(splitLoop.parts) : splitLoop.parts[i] # <<>>)
    /\ [][splitIteration => Len(splitLoop'.s) < Len(splitLoop.s)]_vars

\* The texts Listen handles itself.
SlashTexts == {TxtStart, TxtStatus, TxtExit, TxtStop}

\* Where a handler is while it routes a text to a PTY or makes a session or
\* a one-shot terminal.
RoutingPcs ==
    {"hc.check", "send.text", "send.cr", "send.raw", "start.new", "start.spawn",
     "oneshot.run", "oneshot.stream"}

\* C36: a message of a whitelisted sender whose text is /start, /status,
\* /exit or /stop never enters handleCommand: the update makes no session
\* and no terminal and writes to no PTY, the listener that holds such a text
\* is in stopSession and nowhere else, and /exit or /stop for a chat without
\* an active session changes nothing and is answered "no active session".
C36_SlashCommandsStayInBridge ==
    /\ [](upd[BotListener].text \in SlashTexts =>
              /\ pc[BotListener] \notin RoutingPcs
              /\ upd[BotListener].route = "stop"
              /\ loc[BotListener].op = "stop")
    /\ [][\A u \in Users, c \in Chats, t \in SlashTexts :
              (BotUpdate(u, c, t) /\ IsAllowed(u, allowedUsers)) =>
                  /\ UNCHANGED <<term, nextSess>>
                  /\ \A g \in SessIds : sess'[g].made = sess[g].made
                  /\ pc'[BotListener] \notin RoutingPcs
                  /\ (t \in {TxtExit, TxtStop} /\ ~IsActiveSession(registry[c])) =>
                         /\ UNCHANGED <<registry, sess, term, pc, loc, mu, nextSess>>
                         /\ upd'[BotListener].route = "no active session"]_vars
    /\ [][upd[BotListener].text \in SlashTexts =>
              (~WritesInput(BotListener) /\ nextSess' = nextSess)]_vars

\* C36 witness: /stop arrived for a chat with an active session, which had
\* taken input before; the listener is in stopSession with the session
\* deactivated and out of the map.
C36_Witness ==
    /\ mode = "bot"
    /\ upd[BotListener].text = TxtStop
    /\ pc[BotListener] = "safe.lock"
    /\ term[loc[BotListener].s].input
    /\ ~sess[loc[BotListener].s].Active
    /\ registry[loc[BotListener].chat] = 0

C40_OneSetupInstallsTheHash ==
    [][\A k \in 1..MaxSetupPosts, writeOk \in BOOLEAN :
           handleSetupPasswordStore(k, TRUE, writeOk) => passwordHash = NoHash]_vars

\* C10 (as the specification states it): once a password hash is configured,
\* a POST /setup-password is answered with the bare redirect, and no step of
\* such a request changes the stored hash, the saved configuration or the
\* token map, or issues a session token.
C10_SetupClosedOnceConfigured ==
    [][passwordHash # NoHash =>
          /\ \A k \in 1..MaxSetupPosts, p \in Passwords, q \in Passwords :
                 handleSetupPassword(k, "POST", p, q) =>
                     /\ resp' = Response("/setup-password", "303 See Other", "", 0)
                     /\ UNCHANGED <<passwordHash, webDisk, authSessions, issued>>
          /\ \A k \in 1..MaxSetupPosts, hashOk \in BOOLEAN, writeOk \in BOOLEAN :
                 handleSetupPasswordStore(k, hashOk, writeOk) =>
                     UNCHANGED <<passwordHash, webDisk, authSessions, issued>>]_vars

(***************************************************************************)
(* Specifications                                                          *)
(***************************************************************************)

InitClassify == ClassifyInit /\ ApprovalIdle /\ SessIdle /\ OutIdle /\ AuthIdle(1) /\ now = 0

SpecClassify == InitClassify /\ [][Classify]_vars

InitApproval == ApprovalInit /\ ClassifyIdle /\ SessIdle /\ OutIdle /\ AuthIdle(1) /\ now = 0

SpecApproval == InitApproval /\ [][ApprovalNext]_vars

InitSessions ==
    /\ DaemonIdle
    /\ ptyCap = MaxSessions
    /\ FlowIdle /\ OutIdle
    /\ \/ BotInit /\ AuthIdle(1)
       \/ WebInit("upgraded") /\ AuthIdle(Cardinality(Chats) + 1)
       \/ TestInit /\ AuthIdle(1)
    /\ ClassifyIdle
    /\ ApprovalIdle
    /\ now = 0

SessionsNext == WorkerNext \/ BotNext \/ WebNext

SpecSessions == InitSessions /\ [][SessionsNext]_vars

InitAuth ==
    AuthInit /\ DaemonIdle /\ ptyCap = MaxSessions /\ FlowIdle /\ OutIdle /\ ClassifyIdle /\ ApprovalIdle /\ now = 0

SpecAuth == InitAuth /\ [][AuthNext]_vars

InitDaemon ==
    /\ BotInit
    /\ ptyCap = MaxSessions
    /\ FlowIdle /\ OutIdle
    /\ \E d \in BOOLEAN : DaemonChildInit(d)
    /\ AuthIdle(1)
    /\ ClassifyIdle
    /\ ApprovalIdle
    /\ now = 0

DaemonNext == WorkerNext \/ BotNext

SpecDaemon == InitDaemon /\ [][DaemonNext]_vars

\* Two clients, each with its own session: the bot bridge with long-running
\* commands and /stop, the web bridge with shell sessions, stop frames and
\* disconnects; the workers of both sessions run.  Every way a session ends
\* is here (stop, child exit, idle timeout, disconnect); the readers see the
\* stop signal or the end of the output, and the delivery of output chunks
\* is left to SpecSessions.
InitPair ==
    /\ DaemonIdle
    /\ ptyCap = PairSessions
    /\ FlowIdle /\ OutIdle
    /\ \/ BotInit /\ allowedUsers = <<101>> /\ AuthIdle(1)
       \/ WebInit("upgraded") /\ AuthIdle(Cardinality(Chats) + 1)
    /\ ClassifyIdle
    /\ ApprovalIdle
    /\ now = 0

PairNext ==
    \/ \E c \in Chats, t \in {TxtTop, TxtStop} : BotUpdate(101, c, t)
    \/ \E p \in Procs : HandleCommandCheck(p) \/ SendText(p) \/ SendCR(p)
    \/ \E p \in Procs : StartSession(p, TRUE) \/ SpawnStreamer(p)
    \/ \E p \in Procs : SafeLock(p) \/ SafeBody(p)
    \/ \E p \in Procs : CloseSelect(p) \/ CloseRest(p)
    \/ \E s \in SessIds : ChildExit(s)
    \/ \E s \in SessIds, o \in {"stop", "eof"} : readOutput(s, o)
    \/ \E g \in SessIds : StreamLookup(g)
    \/ \E g \in SessIds, why \in {"stopped", "exited", "idle timeout"} : StreamReturn(g, why)
    \/ \E g \in SessIds : BotStreamCleanup(g) \/ WebStreamCleanup(g)
    \/ \E c \in Chats : startShellSession(c, TRUE)
    \/ \E c \in Chats : WebFrame(c, "stop", TxtLs)
    \/ \E p \in Procs : WebStopCheck(p) \/ WebStopSignal(p) \/ WebStopDelete(p)
    \/ \E c \in Chats : cleanup(c, "close")

SpecPair == InitPair /\ [][PairNext]_vars

\* One socket session's output path, from the bytes the child writes to the
\* frames the client decodes.
InitFlow ==
    /\ FlowInit
    /\ OutIdle
    /\ DaemonIdle
    /\ ptyCap = MaxSessions
    /\ mode = "off"
    /\ allowedUsers = <<>>
    /\ registry = [c \in Chats |-> 0]
    /\ mu = NoProc
    /\ sess = [s \in SessIds |-> NoSession]
    /\ term = [s \in SessIds |-> NoTerminal]
    /\ nextSess = 1
    /\ pc = [p \in Procs |-> "off"]
    /\ loc = [p \in Procs |-> NoLocals]
    /\ upd = [p \in Procs |-> NoFrame]
    /\ panicked = "no"
    /\ exited = FALSE
    /\ ClassifyIdle /\ ApprovalIdle /\ AuthIdle(1) /\ now = 0

SpecFlow == InitFlow /\ [][FlowNext]_vars

\* The web bridge with its connections admitted and in their read loops, and
\* the scheduling its goroutines get: a goroutine that can take a step takes
\* one (the Go scheduler is fair, and a select with a ready case is taken).
\* What the clients and the children do is not forced: stop frames, the
\* disconnect, the child's exit, and the 30 minutes of silence.  The readers
\* see the stop signal or the end of the output; the delivery of output
\* chunks is left to SpecSessions.
InitLive ==
    /\ DaemonIdle
    /\ ptyCap = PairSessions
    /\ FlowIdle /\ OutIdle
    /\ WebInit("upgraded")
    /\ AuthIdle(Cardinality(Chats) + 1)
    /\ ClassifyIdle /\ ApprovalIdle /\ now = 0

LiveNext ==
    \/ \E c \in Chats : startShellSession(c, TRUE)
    \/ \E c \in Chats : WebFrame(c, "stop", TxtLs)
    \/ \E p \in Procs : WebStopCheck(p) \/ WebStopSignal(p) \/ WebStopDelete(p)
    \/ \E p \in Procs : CloseSelect(p) \/ CloseRest(p)
    \/ \E c \in Chats : cleanup(c, "close")
    \/ \E s \in SessIds : ChildExit(s)
    \/ \E s \in SessIds, o \in {"stop", "eof"} : readOutput(s, o)
    \/ \E g \in SessIds : StreamLookup(g)
    \/ \E g \in SessIds, why \in {"stopped", "exited", "idle timeout"} : StreamReturn(g, why)
    \/ \E g \in SessIds : WebStreamCleanup(g)

\* Per goroutine, the steps its code takes by itself.  A select with several
\* ready cases takes any of them; the case that ends the streamer is taken
\* at some round.
LiveFair ==
    /\ \A c \in Chats :
          WF_vars(\/ startShellSession(c, TRUE)
                  \/ WebStopCheck(Conn(c)) \/ WebStopSignal(Conn(c)) \/ WebStopDelete(Conn(c))
                  \/ CloseSelect(Conn(c)) \/ CloseRest(Conn(c)))
    /\ \A g \in SessIds :
          /\ WF_vars(\/ StreamLookup(g) \/ WebStreamCleanup(g)
                     \/ CloseSelect(Streamer(g)) \/ CloseRest(Streamer(g)))
          /\ WF_vars(StreamReturn(g, "stopped"))
          /\ WF_vars(StreamReturn(g, "exited"))
          /\ WF_vars(readOutput(g, "stop") \/ readOutput(g, "eof"))

SpecLive == InitLive /\ [][LiveNext]_vars /\ LiveFair


\* One message through the chat sink.
InitSink ==
    /\ SinkInit
    /\ ReaderIdle
    /\ WriteIdle
    /\ LauncherIdle
    /\ MoreIdle
    /\ ClassifyIdle /\ ApprovalIdle /\ SessIdle /\ AuthIdle(1) /\ now = 0

SpecSink == InitSink /\ [][SinkNext]_vars


\* One screen reader, written to and read in any order.
InitReader ==
    /\ ReaderIdle
    /\ SinkIdle
    /\ WriteIdle
    /\ LauncherIdle
    /\ MoreIdle
    /\ ClassifyIdle /\ ApprovalIdle /\ SessIdle /\ AuthIdle(1) /\ now = 0

SpecReader == InitReader /\ [][ReaderNext]_vars


\* One sink and the goroutines that call it.
InitWrite ==
    /\ SinkWriteInit
    /\ SinkIdle
    /\ ReaderIdle
    /\ LauncherIdle
    /\ MoreIdle
    /\ ClassifyIdle /\ ApprovalIdle /\ SessIdle /\ AuthIdle(1) /\ now = 0

SpecWrite == InitWrite /\ [][WriteNext]_vars


\* The `--daemon` invocations of one configuration directory, and the daemons
\* they start.
InitLauncher ==
    /\ LauncherInit
    /\ SinkIdle
    /\ ReaderIdle
    /\ WriteIdle
    /\ MoreIdle
    /\ ClassifyIdle /\ ApprovalIdle /\ SessIdle /\ AuthIdle(1) /\ now = 0

SpecLauncher == InitLauncher /\ [][LauncherNext]_vars


\* One bot streamer: bytes, ticks and time in any order.
InitChatStream ==
    /\ ChatStreamInit
    /\ FindIdle /\ StreamOutIdle /\ SplitIdle
    /\ SinkIdle /\ ReaderIdle /\ WriteIdle /\ LauncherIdle
    /\ ClassifyIdle /\ ApprovalIdle /\ SessIdle /\ AuthIdle(1) /\ now = 0

SpecChatStream == InitChatStream /\ [][ChatStreamNext]_vars


\* findNewContent on every pair of explored texts.
InitFind ==
    /\ FindInit
    /\ ChatStreamIdle /\ StreamOutIdle /\ SplitIdle
    /\ SinkIdle /\ ReaderIdle /\ WriteIdle /\ LauncherIdle
    /\ ClassifyIdle /\ ApprovalIdle /\ SessIdle /\ AuthIdle(1) /\ now = 0

SpecFind == InitFind /\ [][FindNext]_vars


\* splitAtSafeBoundary on every explored string and limit.
InitSplit ==
    /\ SplitInit
    /\ ChatStreamIdle /\ FindIdle /\ StreamOutIdle
    /\ SinkIdle /\ ReaderIdle /\ WriteIdle /\ LauncherIdle
    /\ ClassifyIdle /\ ApprovalIdle /\ SessIdle /\ AuthIdle(1) /\ now = 0

SpecSplit == InitSplit /\ [][SplitNext]_vars


\* One StreamOutput, with time passing and the ticker served.
InitStreamOut ==
    /\ StreamOutInit
    /\ ChatStreamIdle /\ FindIdle /\ SplitIdle
    /\ SinkIdle /\ ReaderIdle /\ WriteIdle /\ LauncherIdle
    /\ ClassifyIdle /\ ApprovalIdle /\ SessIdle /\ AuthIdle(1) /\ now = 0

SpecStreamOut == InitStreamOut /\ [][StreamOutNext]_vars /\ StreamOutFair

====
